---- MODULE Spec2Model ----
(***************************************************************************)
(* A state-machine model of contracts/LendingPlatform.sol: the loan        *)
(* lifecycle (createLoanRequest, fundLoanRequest, repayLoan,               *)
(* liquidateExpiredLoan), the reentrancy guard, the pause gate, the owner  *)
(* operations and the price oracle adapter.                                *)
(*                                                                         *)
(* Execution model (EVM): one transaction at a time.  A call that fails a  *)
(* require reverts: it leaves no trace in the state.  An outbound          *)
(* `call{value: v}("")` hands control to the recipient, who may accept,    *)
(* reject (the call returns false) or call back into the contract before   *)
(* answering.  `stack` holds the guarded operations in flight, each with   *)
(* the snapshot a revert restores.                                         *)
(*                                                                         *)
(* Integers are 32 bit in the checker, so the fixed-point scale and the    *)
(* lengths of a day are scaled down (SCALE, FEED_SCALE, Day); the          *)
(* formulas keep the shape of the source.  All values stay far below       *)
(* 2^256, so Solidity 0.8's checked arithmetic never reverts in range.     *)
(***************************************************************************)
EXTENDS Integers, Sequences, FiniteSets, TLC

VARIABLES
    loanRequests,             \* mapping(uint256 => LoanRequest)
    activeLoans,              \* mapping(uint256 => ActiveLoan)
    totalRequests,            \* next request id
    totalLoans,               \* next loan id
    borrowerToLoanIds,        \* mapping(address => uint256[])
    lenderToLoanIds,          \* mapping(address => uint256[])
    reentrancyStatus,         \* _reentrancyStatus
    ethUsdFeed,               \* address of the feed, ZERO in demo mode
    demoFixedEthUsdPrice,
    realEstateOracle,
    owner,
    paused,
    overdueRepayPenaltyBp,
    liquidationBonusBp,
    maxPriceStalenessSeconds,
    balance,                  \* wei held by every account and by the contract
    lastEvent,                \* the most recent event of the event stream
    settlements,              \* history: per loan id, the settlements that paid out
    now,                      \* block.timestamp
    feedAnswer,               \* the feed's latestRoundData().answer
    feedUpdatedAt,            \* the feed's latestRoundData().updatedAt
    stack                     \* guarded operations in flight, innermost last

storageVars == <<loanRequests, activeLoans, totalRequests, totalLoans,
                 borrowerToLoanIds, lenderToLoanIds, reentrancyStatus>>
adminVars   == <<ethUsdFeed, demoFixedEthUsdPrice, realEstateOracle, owner, paused,
                 overdueRepayPenaltyBp, liquidationBonusBp, maxPriceStalenessSeconds>>
worldVars   == <<storageVars, adminVars, balance, lastEvent, settlements>>
envVars     == <<now, feedAnswer, feedUpdatedAt>>
vars        == <<worldVars, envVars, stack>>

----------------------------------------------------------------------------
(* Bounds of the model *)

MaxRequests == 2          \* createLoanRequest stops at this many requests
MaxLoans    == 2          \* fundLoanRequest stops at this many loans
MaxOpsLoans == 1          \* requests and loans under SpecOps
MaxTime     == 3          \* block.timestamp stops here
MaxDepth    == 2          \* call depth of guarded operations
SCALE       == 100        \* the source's 1e18 fixed-point scale, scaled down
FEED_SCALE  == 10         \* the source's 1e10 (8 -> 18 decimals), scaled down
Day         == 1          \* ticks of block.timestamp per day (source: 86400)
StaleTicks  == 1          \* initial maxPriceStalenessSeconds (source: 1 hours)
StartFunds  == 13000       \* wei every account starts with

(* Program constants *)

MAX_INTEREST_RATE == 7
ENTERED           == 1
NOT_ENTERED       == 2
BP_DENOMINATOR    == 10000
MAX_BP            == 5000
DEFAULT_BP        == 300
DEMO_PRICE_USD    == 2000
DAYS_PER_YEAR     == 365
PERCENT           == 100

Addr    == {"a1", "a2", "a3"}
ZERO    == "0x0"
THIS    == "this"
FEED    == "feed"
RWA     == "rwa"
Deployer == "a1"

RequestIds == 0 .. MaxRequests
LoanIds    == 0 .. (MaxLoans - 1)

Year == DAYS_PER_YEAR * Day

----------------------------------------------------------------------------
(* Storage defaults and the snapshot a revert restores *)

EmptyRequest ==
    [borrower |-> ZERO, loanAmount |-> 0, duration |-> 0, isActive |-> FALSE,
     stake |-> 0, interestRate |-> 0, metadataCommitment |-> "", encryptedCid |-> "",
     propertyIdCommitment |-> "", appraisalEncryptedCid |-> "", propertyUnits |-> 0]

EmptyLoan ==
    [borrower |-> ZERO, lender |-> ZERO, loanAmount |-> 0, stake |-> 0,
     startTimestamp |-> 0, endTime |-> 0, interestRate |-> 0, initialEthPrice |-> 0,
     propertyUnits |-> 0, isRepaid |-> FALSE]

Event(name, args) == [name |-> name, args |-> args]

NoEvent == Event("none", <<>>)

(* Events are write-only: no operation reads them.  The stream is recorded  *)
(* only in the specifications that observe it.                             *)
Unobserved == Event("unobserved", <<>>)

World ==
    [loanRequests |-> loanRequests, activeLoans |-> activeLoans,
     totalRequests |-> totalRequests, totalLoans |-> totalLoans,
     borrowerToLoanIds |-> borrowerToLoanIds, lenderToLoanIds |-> lenderToLoanIds,
     reentrancyStatus |-> reentrancyStatus, ethUsdFeed |-> ethUsdFeed,
     demoFixedEthUsdPrice |-> demoFixedEthUsdPrice, realEstateOracle |-> realEstateOracle,
     owner |-> owner, paused |-> paused, overdueRepayPenaltyBp |-> overdueRepayPenaltyBp,
     liquidationBonusBp |-> liquidationBonusBp,
     maxPriceStalenessSeconds |-> maxPriceStalenessSeconds,
     balance |-> balance, lastEvent |-> lastEvent, settlements |-> settlements]

Restore(w) ==
    /\ loanRequests' = w.loanRequests
    /\ activeLoans' = w.activeLoans
    /\ totalRequests' = w.totalRequests
    /\ totalLoans' = w.totalLoans
    /\ borrowerToLoanIds' = w.borrowerToLoanIds
    /\ lenderToLoanIds' = w.lenderToLoanIds
    /\ reentrancyStatus' = w.reentrancyStatus
    /\ ethUsdFeed' = w.ethUsdFeed
    /\ demoFixedEthUsdPrice' = w.demoFixedEthUsdPrice
    /\ realEstateOracle' = w.realEstateOracle
    /\ owner' = w.owner
    /\ paused' = w.paused
    /\ overdueRepayPenaltyBp' = w.overdueRepayPenaltyBp
    /\ liquidationBonusBp' = w.liquidationBonusBp
    /\ maxPriceStalenessSeconds' = w.maxPriceStalenessSeconds
    /\ balance' = w.balance
    /\ lastEvent' = w.lastEvent
    /\ settlements' = w.settlements

Emit(name, args) == IF lastEvent = Unobserved THEN lastEvent ELSE Event(name, args)

----------------------------------------------------------------------------
(* Modifiers *)

NonReentrantOff == TRUE

NonReentrantOk == reentrancyStatus # ENTERED

WhenNotPausedOff == TRUE

WhenNotPausedOk == ~paused

OnlyOwnerOff(c) == TRUE

OnlyOwnerOk(c) == c = owner

----------------------------------------------------------------------------
(* LoanStorage: the id counters *)

GetNextRequestId == totalRequests

GetNextLoanId == totalLoans

----------------------------------------------------------------------------
(* The price oracle adapter *)

PriceErrorNoStaleness ==
    IF ethUsdFeed = ZERO THEN "ok"
    ELSE IF ~(feedAnswer > 0) THEN "InvalidPrice"
    ELSE "ok"

PriceError ==
    IF ethUsdFeed = ZERO THEN "ok"
    ELSE IF ~(feedAnswer > 0) THEN "InvalidPrice"
    ELSE IF ~(now - feedUpdatedAt <= maxPriceStalenessSeconds) THEN "StalePrice"
    ELSE "ok"

GetEthUsdPrice ==
    IF ethUsdFeed = ZERO THEN demoFixedEthUsdPrice ELSE feedAnswer * FEED_SCALE

----------------------------------------------------------------------------
(* Amount due *)

AmountDueInterestSubtracted(loanAmount, initialEthPrice, interestRate, elapsed, currentPrice) ==
    LET principalUsd == (loanAmount * initialEthPrice) \div SCALE
        interestUsd  == (principalUsd * interestRate * elapsed) \div (Year * PERCENT)
        totalUsd     == principalUsd - interestUsd
    IN  (totalUsd * SCALE) \div currentPrice

AmountDueAtDemoPrice(loanAmount, initialEthPrice, interestRate, elapsed, currentPrice) ==
    LET principalUsd == (loanAmount * initialEthPrice) \div SCALE
        interestUsd  == (principalUsd * interestRate * elapsed) \div (Year * PERCENT)
        totalUsd     == principalUsd + interestUsd
    IN  (totalUsd * SCALE) \div (DEMO_PRICE_USD * SCALE)

AmountDuePerDay(loanAmount, initialEthPrice, interestRate, elapsed, currentPrice) ==
    LET principalUsd == (loanAmount * initialEthPrice) \div SCALE
        interestUsd  == (principalUsd * interestRate * elapsed) \div (Day * PERCENT)
        totalUsd     == principalUsd + interestUsd
    IN  (totalUsd * SCALE) \div currentPrice

AmountDue(loanAmount, initialEthPrice, interestRate, elapsed, currentPrice) ==
    LET principalUsd == (loanAmount * initialEthPrice) \div SCALE
        interestUsd  == (principalUsd * interestRate * elapsed) \div (Year * PERCENT)
        totalUsd     == principalUsd + interestUsd
    IN  (totalUsd * SCALE) \div currentPrice

ElapsedSinceZero(id) == now

Elapsed(id) ==
    IF now > activeLoans[id].startTimestamp
    THEN now - activeLoans[id].startTimestamp ELSE 0

CalculateAmountDueEth(id) ==
    AmountDue(activeLoans[id].loanAmount, activeLoans[id].initialEthPrice,
              activeLoans[id].interestRate, Elapsed(id), GetEthUsdPrice)

CalculateAmountDueError(id) ==
    IF activeLoans[id].isRepaid THEN "AlreadyRepaid" ELSE PriceError

ApplyOverduePenaltyEth(baseDueEth, currentPrice, penaltyBp) ==
    IF penaltyBp = 0 THEN baseDueEth
    ELSE LET baseDueUsd == (baseDueEth * currentPrice) \div SCALE
             penaltyUsd == (baseDueUsd * penaltyBp) \div BP_DENOMINATOR
             totalUsd   == baseDueUsd + penaltyUsd
         IN  (totalUsd * SCALE) \div currentPrice

RepayDueAtEnd(id) ==
    IF now >= activeLoans[id].endTime
    THEN ApplyOverduePenaltyEth(CalculateAmountDueEth(id), GetEthUsdPrice,
                                overdueRepayPenaltyBp)
    ELSE CalculateAmountDueEth(id)

RepayDue(id) ==
    IF now > activeLoans[id].endTime
    THEN ApplyOverduePenaltyEth(CalculateAmountDueEth(id), GetEthUsdPrice,
                                overdueRepayPenaltyBp)
    ELSE CalculateAmountDueEth(id)

LiquidationBonus(id) == (activeLoans[id].stake * liquidationBonusBp) \div BP_DENOMINATOR

----------------------------------------------------------------------------
(* Inputs the environment draws from *)

Amounts   == {0, 3001}
Durations == {0, 1}
Rates     == {0, MAX_INTEREST_RATE, MAX_INTEREST_RATE + 1}
Units     == {3}
Around(v) == {x \in {v - 1, v, v + 1} : x >= 0}

(* <<amount, durationInDays, interestRate, msg.value>>: the valid requests  *)
(* and those with one argument wrong.                                      *)
Defects(amount, d, r, value) ==
    (IF amount > 0 THEN 0 ELSE 1) + (IF d > 0 THEN 0 ELSE 1)
    + (IF r > 0 /\ r <= MAX_INTEREST_RATE THEN 0 ELSE 1)
    + (IF amount > 0 /\ value # 2 * amount THEN 1 ELSE 0)
CreateInputs ==
    {in \in Amounts \X Durations \X Rates \X UNION {Around(2 * a) : a \in Amounts} :
        Defects(in[1], in[2], in[3], in[4]) <= 1 /\ in[4] \in Around(2 * in[1])}

----------------------------------------------------------------------------
(* Value movement *)

Deposit(b, c, v) == [b EXCEPT ![c] = @ - v, ![THIS] = @ + v]

Send(b, to, v) == [b EXCEPT ![THIS] = @ - v, ![to] = @ + v]

----------------------------------------------------------------------------
(* The require chains of the four lifecycle operations, in source order.   *)
(* Each yields "ok" or the reason of the revert.                           *)

CreateErrorAtLeast(amount, durationInDays, interestRate, value) ==
    IF ~WhenNotPausedOk THEN "Paused"
    ELSE IF ~(amount > 0) THEN "InvalidAmount"
    ELSE IF ~(durationInDays > 0) THEN "InvalidDuration"
    ELSE IF ~(value >= amount * 2) THEN "CollateralMismatch"
    ELSE IF ~(interestRate <= MAX_INTEREST_RATE) THEN "InvalidRate"
    ELSE IF ~(interestRate > 0) THEN "InvalidRate"
    ELSE "ok"

CreateErrorNoRateFloor(amount, durationInDays, interestRate, value) ==
    IF ~WhenNotPausedOk THEN "Paused"
    ELSE IF ~(amount > 0) THEN "InvalidAmount"
    ELSE IF ~(durationInDays > 0) THEN "InvalidDuration"
    ELSE IF ~(value = amount * 2) THEN "CollateralMismatch"
    ELSE IF ~(interestRate <= MAX_INTEREST_RATE) THEN "InvalidRate"
    ELSE "ok"

CreateError(amount, durationInDays, interestRate, value) ==
    IF ~WhenNotPausedOk THEN "Paused"
    ELSE IF ~(amount > 0) THEN "InvalidAmount"
    ELSE IF ~(durationInDays > 0) THEN "InvalidDuration"
    ELSE IF ~(value = amount * 2) THEN "CollateralMismatch"
    ELSE IF ~(interestRate <= MAX_INTEREST_RATE) THEN "InvalidRate"
    ELSE IF ~(interestRate > 0) THEN "InvalidRate"
    ELSE "ok"

FundErrorNoActiveCheck(c, requestId, value) ==
    IF ~NonReentrantOk THEN "Reentrant"
    ELSE IF ~WhenNotPausedOk THEN "Paused"
    ELSE IF ~(value = loanRequests[requestId].loanAmount) THEN "AmountMismatch"
    ELSE PriceError

FundErrorAtLeast(c, requestId, value) ==
    IF ~NonReentrantOk THEN "Reentrant"
    ELSE IF ~WhenNotPausedOk THEN "Paused"
    ELSE IF ~loanRequests[requestId].isActive THEN "RequestNotActive"
    ELSE IF ~(value >= loanRequests[requestId].loanAmount) THEN "AmountMismatch"
    ELSE PriceError

FundError(c, requestId, value) ==
    IF ~NonReentrantOk THEN "Reentrant"
    ELSE IF ~WhenNotPausedOk THEN "Paused"
    ELSE IF ~loanRequests[requestId].isActive THEN "RequestNotActive"
    ELSE IF ~(value = loanRequests[requestId].loanAmount) THEN "AmountMismatch"
    ELSE PriceError

RepayErrorAnyCaller(c, loanId, value) ==
    IF ~NonReentrantOk THEN "Reentrant"
    ELSE IF ~WhenNotPausedOk THEN "Paused"
    ELSE IF activeLoans[loanId].isRepaid THEN "AlreadyRepaid"
    ELSE IF ~(value > 0) THEN "InvalidRepayAmount"
    ELSE IF CalculateAmountDueError(loanId) # "ok" THEN CalculateAmountDueError(loanId)
    ELSE IF ~(value >= RepayDue(loanId)) THEN "InsufficientPayment"
    ELSE "ok"

RepayError(c, loanId, value) ==
    IF ~NonReentrantOk THEN "Reentrant"
    ELSE IF ~WhenNotPausedOk THEN "Paused"
    ELSE IF ~(c = activeLoans[loanId].borrower) THEN "NotBorrower"
    ELSE IF activeLoans[loanId].isRepaid THEN "AlreadyRepaid"
    ELSE IF ~(value > 0) THEN "InvalidRepayAmount"
    ELSE IF CalculateAmountDueError(loanId) # "ok" THEN CalculateAmountDueError(loanId)
    ELSE IF ~(value >= RepayDue(loanId)) THEN "InsufficientPayment"
    ELSE "ok"

LiquidateErrorNoRepaidCheck(c, loanId) ==
    IF ~NonReentrantOk THEN "Reentrant"
    ELSE IF ~(now > activeLoans[loanId].endTime) THEN "NotExpired"
    ELSE "ok"

LiquidateErrorAtEnd(c, loanId) ==
    IF ~NonReentrantOk THEN "Reentrant"
    ELSE IF activeLoans[loanId].isRepaid THEN "AlreadyRepaid"
    ELSE IF ~(now >= activeLoans[loanId].endTime) THEN "NotExpired"
    ELSE "ok"

LiquidateErrorWhenNotPaused(c, loanId) ==
    IF ~NonReentrantOk THEN "Reentrant"
    ELSE IF ~WhenNotPausedOk THEN "Paused"
    ELSE IF activeLoans[loanId].isRepaid THEN "AlreadyRepaid"
    ELSE IF ~(now > activeLoans[loanId].endTime) THEN "NotExpired"
    ELSE "ok"

LiquidateError(c, loanId) ==
    IF ~NonReentrantOk THEN "Reentrant"
    ELSE IF activeLoans[loanId].isRepaid THEN "AlreadyRepaid"
    ELSE IF ~(now > activeLoans[loanId].endTime) THEN "NotExpired"
    ELSE "ok"

(* The effect of repayLoan and of liquidateExpiredLoan on the ledger *)
MarkRepaidAndClear(loanId) ==
    [activeLoans EXCEPT ![loanId] = [EmptyLoan EXCEPT !.isRepaid = TRUE]]

MarkRepaid(loanId) == [activeLoans EXCEPT ![loanId].isRepaid = TRUE]

----------------------------------------------------------------------------
(* Operations in flight *)

Top == stack[Len(stack)]

Frame(op, id, c, value, dueEth, bonus, toLender) ==
    [op |-> op, id |-> id, sender |-> c, value |-> value, dueEth |-> dueEth,
     bonus |-> bonus, toLender |-> toLender, k |-> 1, snap |-> World]

(* The k-th outbound call of the operation of frame f: recipient and value. *)
TransferOfStakeTwice(f, k) ==
    CASE f.op = "fund" ->
           [to |-> loanRequests[f.id].borrower, amount |-> f.value]
      [] f.op = "repay" /\ k = 1 ->
           [to |-> activeLoans[f.id].lender, amount |-> f.dueEth]
      [] f.op = "repay" /\ k = 2 ->
           [to |-> activeLoans[f.id].borrower, amount |-> 2 * activeLoans[f.id].stake]
      [] f.op = "repay" /\ k = 3 ->
           [to |-> activeLoans[f.id].borrower, amount |-> f.value - f.dueEth]
      [] f.op = "liquidate" /\ k = 1 ->
           [to |-> f.sender, amount |-> f.bonus]
      [] f.op = "liquidate" /\ k = 2 ->
           [to |-> activeLoans[f.id].lender, amount |-> f.toLender]

TransferOf(f, k) ==
    CASE f.op = "fund" ->
           [to |-> loanRequests[f.id].borrower, amount |-> f.value]
      [] f.op = "repay" /\ k = 1 ->
           [to |-> activeLoans[f.id].lender, amount |-> f.dueEth]
      [] f.op = "repay" /\ k = 2 ->
           [to |-> activeLoans[f.id].borrower, amount |-> activeLoans[f.id].stake]
      [] f.op = "repay" /\ k = 3 ->
           [to |-> activeLoans[f.id].borrower, amount |-> f.value - f.dueEth]
      [] f.op = "liquidate" /\ k = 1 ->
           [to |-> f.sender, amount |-> f.bonus]
      [] f.op = "liquidate" /\ k = 2 ->
           [to |-> activeLoans[f.id].lender, amount |-> f.toLender]

NumTransfersNoRefund(f) ==
    CASE f.op = "fund" -> 1
      [] f.op = "repay" -> 2
      [] f.op = "liquidate" -> 2

NumTransfers(f) ==
    CASE f.op = "fund" -> 1
      [] f.op = "repay" -> IF f.value - f.dueEth > 0 THEN 3 ELSE 2
      [] f.op = "liquidate" -> 2

----------------------------------------------------------------------------
(* createLoanRequest: no outbound call, so it runs to its end in one step,  *)
(* at top level or from inside a recipient's callback.                     *)

CreateLoanRequest(c, amount, durationInDays, interestRate, units, value) ==
    /\ value <= balance[c]
    /\ IF CreateError(amount, durationInDays, interestRate, value) # "ok"
       THEN UNCHANGED vars
       ELSE LET requestId == GetNextRequestId IN
            /\ totalRequests' = totalRequests + 1
            /\ loanRequests' = [loanRequests EXCEPT ![requestId] =
                   [borrower |-> c, loanAmount |-> amount, duration |-> durationInDays,
                    isActive |-> TRUE, stake |-> value, interestRate |-> interestRate,
                    metadataCommitment |-> "meta", encryptedCid |-> "cid",
                    propertyIdCommitment |-> "prop", appraisalEncryptedCid |-> "appr",
                    propertyUnits |-> units]]
            /\ balance' = Deposit(balance, c, value)
            /\ lastEvent' = Emit("LoanRequested", <<requestId, c, amount, durationInDays,
                                                      interestRate, value>>)
            /\ UNCHANGED <<activeLoans, totalLoans, borrowerToLoanIds, lenderToLoanIds,
                           reentrancyStatus, adminVars, settlements, envVars, stack>>

----------------------------------------------------------------------------
(* fundLoanRequest up to its outbound call to the borrower *)

FundLoanRequestEndFromZero(c, requestId, value) ==
    /\ value <= balance[c]
    /\ LET request == loanRequests[requestId]
           loanId  == GetNextLoanId
           held    == Deposit(balance, c, value)
       IN  IF FundError(c, requestId, value) # "ok" \/ held[THIS] < value
           THEN UNCHANGED vars
           ELSE /\ reentrancyStatus' = ENTERED
                /\ totalLoans' = totalLoans + 1
                /\ activeLoans' = [activeLoans EXCEPT ![loanId] =
                       [@ EXCEPT !.borrower = request.borrower,
                                 !.lender = c,
                                 !.loanAmount = request.loanAmount,
                                 !.stake = request.stake,
                                 !.startTimestamp = now,
                                 !.endTime = request.duration * Day,
                                 !.interestRate = request.interestRate,
                                 !.initialEthPrice = GetEthUsdPrice,
                                 !.propertyUnits = request.propertyUnits]]
                /\ loanRequests' = [loanRequests EXCEPT ![requestId].isActive = FALSE]
                /\ lastEvent' = Emit("LoanFunded", <<loanId, requestId, c, GetEthUsdPrice>>)
                /\ borrowerToLoanIds' = [borrowerToLoanIds EXCEPT
                       ![request.borrower] = Append(@, loanId)]
                /\ lenderToLoanIds' = [lenderToLoanIds EXCEPT ![c] = Append(@, loanId)]
                /\ balance' = Send(held, request.borrower, value)
                /\ stack' = Append(stack, Frame("fund", requestId, c, value, 0, 0, 0))
                /\ UNCHANGED <<totalRequests, adminVars, settlements, envVars>>

FundLoanRequestIndexedByLender(c, requestId, value) ==
    /\ value <= balance[c]
    /\ LET request == loanRequests[requestId]
           loanId  == GetNextLoanId
           held    == Deposit(balance, c, value)
       IN  IF FundError(c, requestId, value) # "ok" \/ held[THIS] < value
           THEN UNCHANGED vars
           ELSE /\ reentrancyStatus' = ENTERED
                /\ totalLoans' = totalLoans + 1
                /\ activeLoans' = [activeLoans EXCEPT ![loanId] =
                       [@ EXCEPT !.borrower = request.borrower,
                                 !.lender = c,
                                 !.loanAmount = request.loanAmount,
                                 !.stake = request.stake,
                                 !.startTimestamp = now,
                                 !.endTime = now + (request.duration * Day),
                                 !.interestRate = request.interestRate,
                                 !.initialEthPrice = GetEthUsdPrice,
                                 !.propertyUnits = request.propertyUnits]]
                /\ loanRequests' = [loanRequests EXCEPT ![requestId].isActive = FALSE]
                /\ lastEvent' = Emit("LoanFunded", <<loanId, requestId, c, GetEthUsdPrice>>)
                /\ borrowerToLoanIds' = [borrowerToLoanIds EXCEPT
                       ![c] = Append(@, loanId)]
                /\ lenderToLoanIds' = [lenderToLoanIds EXCEPT ![c] = Append(@, loanId)]
                /\ balance' = Send(held, request.borrower, value)
                /\ stack' = Append(stack, Frame("fund", requestId, c, value, 0, 0, 0))
                /\ UNCHANGED <<totalRequests, adminVars, settlements, envVars>>

FundLoanRequestSameId(c, requestId, value) ==
    /\ value <= balance[c]
    /\ LET request == loanRequests[requestId]
           loanId  == requestId
           held    == Deposit(balance, c, value)
       IN  IF FundError(c, requestId, value) # "ok" \/ held[THIS] < value
           THEN UNCHANGED vars
           ELSE /\ reentrancyStatus' = ENTERED
                /\ totalLoans' = totalLoans + 1
                /\ activeLoans' = [activeLoans EXCEPT ![loanId] =
                       [@ EXCEPT !.borrower = request.borrower,
                                 !.lender = c,
                                 !.loanAmount = request.loanAmount,
                                 !.stake = request.stake,
                                 !.startTimestamp = now,
                                 !.endTime = now + (request.duration * Day),
                                 !.interestRate = request.interestRate,
                                 !.initialEthPrice = GetEthUsdPrice,
                                 !.propertyUnits = request.propertyUnits]]
                /\ loanRequests' = [loanRequests EXCEPT ![requestId].isActive = FALSE]
                /\ lastEvent' = Emit("LoanFunded", <<loanId, requestId, c, GetEthUsdPrice>>)
                /\ borrowerToLoanIds' = [borrowerToLoanIds EXCEPT
                       ![request.borrower] = Append(@, loanId)]
                /\ lenderToLoanIds' = [lenderToLoanIds EXCEPT ![c] = Append(@, loanId)]
                /\ balance' = Send(held, request.borrower, value)
                /\ stack' = Append(stack, Frame("fund", requestId, c, value, 0, 0, 0))
                /\ UNCHANGED <<totalRequests, adminVars, settlements, envVars>>

FundLoanRequest(c, requestId, value) ==
    /\ value <= balance[c]
    /\ LET request == loanRequests[requestId]
           loanId  == GetNextLoanId
           held    == Deposit(balance, c, value)
       IN  IF FundError(c, requestId, value) # "ok" \/ held[THIS] < value
           THEN UNCHANGED vars
           ELSE /\ reentrancyStatus' = ENTERED
                /\ totalLoans' = totalLoans + 1
                /\ activeLoans' = [activeLoans EXCEPT ![loanId] =
                       [@ EXCEPT !.borrower = request.borrower,
                                 !.lender = c,
                                 !.loanAmount = request.loanAmount,
                                 !.stake = request.stake,
                                 !.startTimestamp = now,
                                 !.endTime = now + (request.duration * Day),
                                 !.interestRate = request.interestRate,
                                 !.initialEthPrice = GetEthUsdPrice,
                                 !.propertyUnits = request.propertyUnits]]
                /\ loanRequests' = [loanRequests EXCEPT ![requestId].isActive = FALSE]
                /\ lastEvent' = Emit("LoanFunded", <<loanId, requestId, c, GetEthUsdPrice>>)
                /\ borrowerToLoanIds' = [borrowerToLoanIds EXCEPT
                       ![request.borrower] = Append(@, loanId)]
                /\ lenderToLoanIds' = [lenderToLoanIds EXCEPT ![c] = Append(@, loanId)]
                /\ balance' = Send(held, request.borrower, value)
                /\ stack' = Append(stack, Frame("fund", requestId, c, value, 0, 0, 0))
                /\ UNCHANGED <<totalRequests, adminVars, settlements, envVars>>

----------------------------------------------------------------------------
(* repayLoan up to its first outbound call, to the lender *)

RepayValues(loanId) ==
    IF CalculateAmountDueError(loanId) = "ok"
    THEN {0} \cup Around(RepayDue(loanId))
    ELSE {0, 1}

RepayLoan(c, loanId, value) ==
    /\ value <= balance[c]
    /\ IF RepayError(c, loanId, value) # "ok"
       THEN UNCHANGED vars
       ELSE LET dueEth == RepayDue(loanId)
                held   == Deposit(balance, c, value)
            IN  IF held[THIS] < dueEth
                THEN UNCHANGED vars
                ELSE /\ reentrancyStatus' = ENTERED
                     /\ activeLoans' = MarkRepaid(loanId)
                     /\ balance' = Send(held, activeLoans[loanId].lender, dueEth)
                     /\ stack' = Append(stack, Frame("repay", loanId, c, value, dueEth, 0, 0))
                     /\ UNCHANGED <<loanRequests, totalRequests, totalLoans,
                                    borrowerToLoanIds, lenderToLoanIds, adminVars,
                                    lastEvent, settlements, envVars>>

----------------------------------------------------------------------------
(* liquidateExpiredLoan up to its first outbound call, the caller's bonus *)

LiquidateExpiredLoan(c, loanId) ==
    /\ IF LiquidateError(c, loanId) # "ok"
       THEN UNCHANGED vars
       ELSE LET bonus    == LiquidationBonus(loanId)
                toLender == activeLoans[loanId].stake - bonus
            IN  IF balance[THIS] < bonus
                THEN UNCHANGED vars
                ELSE /\ reentrancyStatus' = ENTERED
                     /\ activeLoans' = MarkRepaid(loanId)
                     /\ balance' = Send(balance, c, bonus)
                     /\ stack' = Append(stack,
                                        Frame("liquidate", loanId, c, 0, 0, bonus, toLender))
                     /\ UNCHANGED <<loanRequests, totalRequests, totalLoans,
                                    borrowerToLoanIds, lenderToLoanIds, adminVars,
                                    lastEvent, settlements, envVars>>

----------------------------------------------------------------------------
(* The recipient of the outbound call in flight answers *)

Pop == SubSeq(stack, 1, Len(stack) - 1)

(* A failed call whose result is not checked: only that call is undone *)
RevertLastTransferOnly ==
    /\ balance' = Deposit(balance, TransferOf(Top, Top.k).to, TransferOf(Top, Top.k).amount)
    /\ reentrancyStatus' = NOT_ENTERED
    /\ stack' = Pop
    /\ UNCHANGED <<loanRequests, activeLoans, totalRequests, totalLoans,
                   borrowerToLoanIds, lenderToLoanIds, adminVars, lastEvent,
                   settlements, envVars>>

Revert ==
    /\ Restore(Top.snap)
    /\ stack' = Pop
    /\ UNCHANGED envVars

FinishNoRelease ==
    LET f    == Top
        loan == activeLoans[f.id]
    IN  /\ lastEvent' =
             CASE f.op = "fund" -> lastEvent
               [] f.op = "repay" ->
                    Emit("LoanRepaid", <<f.id, loan.borrower, loan.lender, f.dueEth>>)
               [] f.op = "liquidate" ->
                    Emit("LoanLiquidated", <<f.id, loan.lender, loan.stake>>)
        /\ settlements' =
             IF f.op = "fund" THEN settlements
             ELSE [settlements EXCEPT ![f.id] =
                      Append(@, f.op)]
        /\ stack' = Pop
        /\ UNCHANGED <<storageVars, adminVars, balance, envVars>>

(* What follows the last outbound call: the event of repay and liquidate,   *)
(* and the guard's release.                                                *)
Finish ==
    LET f    == Top
        loan == activeLoans[f.id]
    IN  /\ reentrancyStatus' = NOT_ENTERED
        /\ lastEvent' =
             CASE f.op = "fund" -> lastEvent
               [] f.op = "repay" ->
                    Emit("LoanRepaid", <<f.id, loan.borrower, loan.lender, f.dueEth>>)
               [] f.op = "liquidate" ->
                    Emit("LoanLiquidated", <<f.id, loan.lender, loan.stake>>)
        /\ settlements' =
             IF f.op = "fund" THEN settlements
             ELSE [settlements EXCEPT ![f.id] =
                      Append(@, f.op)]
        /\ stack' = Pop
        /\ UNCHANGED <<loanRequests, activeLoans, totalRequests, totalLoans,
                       borrowerToLoanIds, lenderToLoanIds, adminVars, balance, envVars>>

(* The recipient accepts: the operation goes on to its next outbound call,  *)
(* or ends.                                                                *)
CallbackAccept ==
    /\ stack # <<>>
    /\ LET f == Top IN
       IF f.k < NumTransfers(f)
       THEN LET t == TransferOf(f, f.k + 1) IN
            IF balance[THIS] < t.amount
            THEN Revert
            ELSE /\ balance' = Send(balance, t.to, t.amount)
                 /\ stack' = [stack EXCEPT ![Len(stack)] =
                        [f EXCEPT !.k = f.k + 1]]
                 /\ UNCHANGED <<storageVars, adminVars, lastEvent, settlements, envVars>>
       ELSE Finish

(* The recipient rejects (its receive function reverts, or it has none):    *)
(* the call returns false, the require after it fails, the operation        *)
(* reverts.  The zero address has no code and accepts.                      *)
CallbackReject ==
    /\ stack # <<>>
    /\ TransferOf(Top, Top.k).to # ZERO
    /\ Revert

----------------------------------------------------------------------------
(* Owner controls *)

NewOwners    == {ZERO, "a2"}
ParamChoices == {<<0, MAX_BP, 0>>, <<MAX_BP + 1, DEFAULT_BP, StaleTicks>>,
                 <<DEFAULT_BP, MAX_BP + 1, StaleTicks>>}
DemoPrices   == {0, (DEMO_PRICE_USD \div 2) * SCALE}
FeedAnswers  == {0, DEMO_PRICE_USD * (SCALE \div FEED_SCALE)}

TransferOwnershipError(c, newOwner) ==
    IF ~OnlyOwnerOk(c) THEN "OnlyOwner"
    ELSE IF ~(newOwner # ZERO) THEN "ZeroAddress"
    ELSE "ok"

TransferOwnership(c, newOwner) ==
    IF TransferOwnershipError(c, newOwner) # "ok"
    THEN UNCHANGED vars
    ELSE /\ owner' = newOwner
         /\ lastEvent' = Emit("OwnerUpdated", <<owner, newOwner>>)
         /\ UNCHANGED <<storageVars, ethUsdFeed, demoFixedEthUsdPrice, realEstateOracle,
                        paused, overdueRepayPenaltyBp, liquidationBonusBp,
                        maxPriceStalenessSeconds, balance, settlements, envVars, stack>>

PauseError(c) == IF ~OnlyOwnerOk(c) THEN "OnlyOwner" ELSE "ok"

Pause(c) ==
    IF PauseError(c) # "ok"
    THEN UNCHANGED vars
    ELSE /\ paused' = TRUE
         /\ lastEvent' = Emit("Paused", <<c>>)
         /\ UNCHANGED <<storageVars, ethUsdFeed, demoFixedEthUsdPrice, realEstateOracle,
                        owner, overdueRepayPenaltyBp, liquidationBonusBp,
                        maxPriceStalenessSeconds, balance, settlements, envVars, stack>>

Unpause(c) ==
    IF PauseError(c) # "ok"
    THEN UNCHANGED vars
    ELSE /\ paused' = FALSE
         /\ lastEvent' = Emit("Unpaused", <<c>>)
         /\ UNCHANGED <<storageVars, ethUsdFeed, demoFixedEthUsdPrice, realEstateOracle,
                        owner, overdueRepayPenaltyBp, liquidationBonusBp,
                        maxPriceStalenessSeconds, balance, settlements, envVars, stack>>

UpdateParamsError(c, penaltyBp, bonusBp) ==
    IF ~OnlyOwnerOk(c) THEN "OnlyOwner"
    ELSE IF ~(bonusBp <= MAX_BP) THEN "BonusTooHigh"
    ELSE IF ~(penaltyBp <= MAX_BP) THEN "PenaltyTooHigh"
    ELSE "ok"

UpdateParams(c, penaltyBp, bonusBp, staleness) ==
    IF UpdateParamsError(c, penaltyBp, bonusBp) # "ok"
    THEN UNCHANGED vars
    ELSE /\ overdueRepayPenaltyBp' = penaltyBp
         /\ liquidationBonusBp' = bonusBp
         /\ maxPriceStalenessSeconds' = staleness
         /\ lastEvent' = Emit("ParamsUpdated", <<penaltyBp, bonusBp, staleness>>)
         /\ UNCHANGED <<storageVars, ethUsdFeed, demoFixedEthUsdPrice, realEstateOracle,
                        owner, paused, balance, settlements, envVars, stack>>

UpdateOracleError(c) == IF ~OnlyOwnerOk(c) THEN "OnlyOwner" ELSE "ok"

UpdateOracle(c, newFeed) ==
    IF UpdateOracleError(c) # "ok"
    THEN UNCHANGED vars
    ELSE /\ ethUsdFeed' = newFeed
         /\ lastEvent' = Emit("OracleUpdated", <<newFeed>>)
         /\ UNCHANGED <<storageVars, demoFixedEthUsdPrice, realEstateOracle, owner, paused,
                        overdueRepayPenaltyBp, liquidationBonusBp,
                        maxPriceStalenessSeconds, balance, settlements, envVars, stack>>

SetDemoFixedEthUsdPriceErrorAnyPrice(c, price) ==
    IF ~OnlyOwnerOk(c) THEN "OnlyOwner"
    ELSE "ok"

SetDemoFixedEthUsdPriceError(c, price) ==
    IF ~OnlyOwnerOk(c) THEN "OnlyOwner"
    ELSE IF ~(price > 0) THEN "PriceZero"
    ELSE "ok"

SetDemoFixedEthUsdPrice(c, price) ==
    IF SetDemoFixedEthUsdPriceError(c, price) # "ok"
    THEN UNCHANGED vars
    ELSE /\ demoFixedEthUsdPrice' = price
         /\ UNCHANGED <<storageVars, ethUsdFeed, realEstateOracle, owner, paused,
                        overdueRepayPenaltyBp, liquidationBonusBp,
                        maxPriceStalenessSeconds, balance, lastEvent, settlements,
                        envVars, stack>>

UpdateRealEstateOracleError(c, newOracle) ==
    IF ~OnlyOwnerOk(c) THEN "OnlyOwner"
    ELSE IF ~(newOracle # ZERO) THEN "ZeroAddress"
    ELSE "ok"

UpdateRealEstateOracle(c, newOracle) ==
    IF UpdateRealEstateOracleError(c, newOracle) # "ok"
    THEN UNCHANGED vars
    ELSE /\ realEstateOracle' = newOracle
         /\ lastEvent' = Emit("RealEstateOracleUpdated", <<newOracle>>)
         /\ UNCHANGED <<storageVars, ethUsdFeed, demoFixedEthUsdPrice, owner, paused,
                        overdueRepayPenaltyBp, liquidationBonusBp,
                        maxPriceStalenessSeconds, balance, settlements, envVars, stack>>

----------------------------------------------------------------------------
(* getAllActiveLoans: a counting pass and a filling pass over each of the  *)
(* id ranges; the arrays are allocated with the counts and filled in scan  *)
(* order.                                                                  *)

RECURSIVE CountActiveLoans(_)
CountActiveLoans(i) ==
    IF ~(i < totalLoans) THEN 0
    ELSE (IF ~activeLoans[i].isRepaid THEN 1 ELSE 0) + CountActiveLoans(i + 1)

RECURSIVE CountActiveRequests(_)
CountActiveRequests(i) ==
    IF ~(i < totalRequests) THEN 0
    ELSE (IF loanRequests[i].isActive THEN 1 ELSE 0) + CountActiveRequests(i + 1)

RECURSIVE ScanAllLoans(_)
ScanAllLoans(i) ==
    IF ~(i < totalLoans) THEN <<>>
    ELSE <<[id |-> i, record |-> activeLoans[i]]>> \o ScanAllLoans(i + 1)

RECURSIVE ScanActiveLoans(_)
ScanActiveLoans(i) ==
    IF ~(i < totalLoans) THEN <<>>
    ELSE (IF ~activeLoans[i].isRepaid
          THEN <<[id |-> i, record |-> activeLoans[i]]>> ELSE <<>>)
         \o ScanActiveLoans(i + 1)

RECURSIVE ScanActiveRequests(_)
ScanActiveRequests(i) ==
    IF ~(i < totalRequests) THEN <<>>
    ELSE (IF loanRequests[i].isActive
          THEN <<[id |-> i, record |-> loanRequests[i]]>> ELSE <<>>)
         \o ScanActiveRequests(i + 1)

(* An array of n default entries with the scanned entries written from     *)
(* index 0 on.                                                             *)
Filled(n, scanned, default) ==
    [k \in 1 .. n |-> IF k <= Len(scanned) THEN scanned[k] ELSE default]

GetAllActiveLoans ==
    LET loanSlots    == Filled(CountActiveLoans(0), ScanActiveLoans(0),
                               [id |-> 0, record |-> EmptyLoan])
        requestSlots == Filled(CountActiveRequests(0), ScanActiveRequests(0),
                               [id |-> 0, record |-> EmptyRequest])
    IN  [loanIds    |-> [k \in DOMAIN loanSlots |-> loanSlots[k].id],
         loans      |-> [k \in DOMAIN loanSlots |-> loanSlots[k].record],
         requestIds |-> [k \in DOMAIN requestSlots |-> requestSlots[k].id],
         requests   |-> [k \in DOMAIN requestSlots |-> requestSlots[k].record]]

----------------------------------------------------------------------------
(* The environment between transactions: time passes, the feed reports *)

AdvanceTime ==
    /\ stack = <<>>
    /\ now' = now + 1
    /\ UNCHANGED <<worldVars, feedAnswer, feedUpdatedAt, stack>>

FeedUpdate(answer) ==
    /\ stack = <<>>
    /\ feedAnswer' = answer
    /\ feedUpdatedAt' = now
    /\ UNCHANGED <<worldVars, now, stack>>

----------------------------------------------------------------------------
(* The state after construction, by Deployer, with or without a feed *)

Constructed ==
    /\ loanRequests = [i \in RequestIds |-> EmptyRequest]
    /\ activeLoans = [i \in LoanIds |-> EmptyLoan]
    /\ totalRequests = 0
    /\ totalLoans = 0
    /\ borrowerToLoanIds = [a \in Addr \cup {ZERO} |-> <<>>]
    /\ lenderToLoanIds = [a \in Addr |-> <<>>]
    /\ reentrancyStatus = NOT_ENTERED
    /\ ethUsdFeed \in {ZERO, FEED}
    /\ demoFixedEthUsdPrice = DEMO_PRICE_USD * SCALE
    /\ realEstateOracle = ZERO
    /\ owner = Deployer
    /\ paused = FALSE
    /\ overdueRepayPenaltyBp = DEFAULT_BP
    /\ liquidationBonusBp = DEFAULT_BP
    /\ maxPriceStalenessSeconds = StaleTicks
    /\ balance = [a \in Addr \cup {ZERO, THIS} |-> IF a \in Addr THEN StartFunds ELSE 0]
    /\ settlements = [i \in LoanIds |-> <<>>]
    /\ now = 1
    /\ feedAnswer = DEMO_PRICE_USD * (SCALE \div FEED_SCALE)
    /\ feedUpdatedAt = 1
    /\ stack = <<>>

(* Deployed in demo price mode, as scripts/deploy.js does on a local chain *)
Init == Constructed /\ ethUsdFeed = ZERO /\ lastEvent = Unobserved

(* Deployed with or without a feed *)
InitOps == Constructed /\ lastEvent = Unobserved

----------------------------------------------------------------------------
(* The operations, by the accounts and with the inputs of the bounded       *)
(* environment; maxRequests and maxLoans bound the ledger.                  *)

Creators == {"a1", "a2"}
Funders  == {"a2", "a3"}

DoCreate(callers, maxRequests) ==
    /\ totalRequests < maxRequests
    /\ \E c \in callers, in \in CreateInputs, u \in Units :
         CreateLoanRequest(c, in[1], in[2], in[3], u, in[4])

DoFund(callers, maxLoans) ==
    /\ totalLoans < maxLoans
    /\ Len(stack) < MaxDepth
    /\ \E c \in callers, id \in RequestIds :
         \E value \in Around(loanRequests[id].loanAmount) : FundLoanRequest(c, id, value)

DoRepay ==
    /\ Len(stack) < MaxDepth
    /\ \E c \in Addr, id \in LoanIds :
         \E value \in RepayValues(id) : RepayLoan(c, id, value)

DoLiquidate ==
    /\ Len(stack) < MaxDepth
    /\ \E c \in Addr, id \in LoanIds : LiquidateExpiredLoan(c, id)

DoAdvanceTime == now < MaxTime /\ AdvanceTime

DoPause == \E c \in Addr : Pause(c)

DoUnpause == \E c \in Addr : Unpause(c)

DoTransferOwnership == \E c \in Addr, newOwner \in NewOwners : TransferOwnership(c, newOwner)

DoUpdateParams == \E c \in Addr, p \in ParamChoices : UpdateParams(c, p[1], p[2], p[3])

DoUpdateOracle == \E c \in Addr, f \in {ZERO, FEED} : UpdateOracle(c, f)

DoFeedUpdate == \E answer \in FeedAnswers : FeedUpdate(answer)

(* The loan lifecycle with the pause gate, in demo price mode *)
Next ==
    \/ DoCreate(Creators, MaxRequests)
    \/ DoFund(Funders, MaxLoans)
    \/ DoRepay
    \/ DoLiquidate
    \/ CallbackAccept
    \/ CallbackReject
    \/ DoAdvanceTime
    \/ DoPause
    \/ DoUnpause

Spec == Init /\ [][Next]_vars

(* One request and one loan under every control of the owner and a feed     *)
(* that reports, goes invalid and goes stale.                              *)
NextOps ==
    \/ DoCreate({"a1"}, MaxOpsLoans)
    \/ DoFund({"a2"}, MaxOpsLoans)
    \/ DoRepay
    \/ DoLiquidate
    \/ CallbackAccept
    \/ CallbackReject
    \/ DoAdvanceTime
    \/ DoPause
    \/ DoUnpause
    \/ DoUpdateParams
    \/ DoUpdateOracle
    \/ DoFeedUpdate

SpecOps == InitOps /\ [][NextOps]_vars

(* The price and amount-due arithmetic: one loan of one unit or of the     *)
(* usual size, a feed that reports whole and fractional prices, goes       *)
(* invalid and goes stale, and the owner's fixed price.                    *)
DustAmounts == {1, 3001}
DustAnswers == {-1, 0, 15, 20}

DoCreateDust ==
    /\ totalRequests < MaxOpsLoans
    /\ \E amount \in DustAmounts, u \in Units :
         CreateLoanRequest("a1", amount, 1, MAX_INTEREST_RATE, u, 2 * amount)

DoFeedUpdateDust == \E answer \in DustAnswers : FeedUpdate(answer)

DoSetDemoFixedEthUsdPrice ==
    \E c \in {owner, "a3"}, price \in DemoPrices : SetDemoFixedEthUsdPrice(c, price)

NextPrice ==
    \/ DoCreateDust
    \/ DoFund({"a2"}, MaxOpsLoans)
    \/ DoRepay
    \/ CallbackAccept
    \/ CallbackReject
    \/ DoAdvanceTime
    \/ DoUpdateParams
    \/ DoUpdateOracle
    \/ DoFeedUpdateDust
    \/ DoSetDemoFixedEthUsdPrice

SpecPrice == InitOps /\ [][NextPrice]_vars

(* The lifecycle of one loan with the event stream observed *)
InitEvents == Constructed /\ ethUsdFeed = ZERO /\ lastEvent = NoEvent

NextEvents ==
    \/ DoCreate({"a1"}, MaxOpsLoans)
    \/ DoFund({"a2"}, MaxOpsLoans)
    \/ DoRepay
    \/ DoLiquidate
    \/ CallbackAccept
    \/ CallbackReject
    \/ DoAdvanceTime

SpecEvents == InitEvents /\ [][NextEvents]_vars

(* Every control of the owner, by every account, around one request and    *)
(* its funding, with the event stream observed.                            *)
RwaOracles == {ZERO, RWA}

DoUpdateRealEstateOracle ==
    \E c \in Addr, newOracle \in RwaOracles : UpdateRealEstateOracle(c, newOracle)

InitAdmin == Constructed /\ lastEvent = NoEvent

NextAdmin ==
    \/ DoCreate({"a1"}, MaxOpsLoans)
    \/ DoFund({"a2"}, MaxOpsLoans)
    \/ CallbackAccept
    \/ CallbackReject
    \/ DoTransferOwnership
    \/ DoPause
    \/ DoUnpause
    \/ DoUpdateParams
    \/ DoUpdateOracle
    \/ DoSetDemoFixedEthUsdPrice
    \/ DoUpdateRealEstateOracle

SpecAdmin == InitAdmin /\ [][NextAdmin]_vars

(* One loan whose term ends before the clock stops, with recipients that   *)
(* accept every transfer, under the pause switch and a feed that reports,  *)
(* goes invalid and goes stale.  Time advances, a transfer in flight is    *)
(* answered and a liquidation that can go through is eventually called.    *)
DoFundEarly ==
    /\ totalLoans < MaxOpsLoans
    /\ Len(stack) < MaxDepth
    /\ \E id \in RequestIds :
         /\ now + (loanRequests[id].duration * Day) < MaxTime
         /\ \E value \in Around(loanRequests[id].loanAmount) : FundLoanRequest("a2", id, value)

LiquidateSome(id) ==
    /\ Len(stack) < MaxDepth
    /\ \E c \in Addr : LiquidateExpiredLoan(c, id)

NextLive ==
    \/ DoCreate({"a1"}, MaxOpsLoans)
    \/ DoFundEarly
    \/ DoRepay
    \/ DoLiquidate
    \/ CallbackAccept
    \/ DoAdvanceTime
    \/ DoPause
    \/ DoUnpause
    \/ DoUpdateOracle
    \/ DoFeedUpdate

Fairness ==
    /\ WF_vars(DoAdvanceTime)
    /\ WF_vars(CallbackAccept)
    /\ \A id \in LoanIds : WF_vars(LiquidateSome(id))

SpecLive == InitOps /\ [][NextLive]_vars /\ Fairness

----------------------------------------------------------------------------
(* Properties *)

TopLevel == stack = <<>>

(* The state as of the last completed transaction *)
Committed == IF stack = <<>> THEN World ELSE stack[1].snap

Funded(id) == id < totalLoans

RepayProbes == {0, 1, StartFunds}

(* C1: a loan is settled at most once.  No loan has two settlements; once *)
(* a repay or a liquidate has settled a loan, every liquidate on it fails  *)
(* (with AlreadyRepaid for a top-level call) and every repay by its        *)
(* borrower fails (with AlreadyRepaid for a top-level call that passes the *)
(* pause gate).                                                            *)
C1_SettledAtMostOnce ==
    \A id \in LoanIds :
        /\ Len(settlements[id]) <= 1
        /\ settlements[id] # <<>> =>
             /\ activeLoans[id].isRepaid
             /\ \A c \in Addr :
                  /\ LiquidateError(c, id) # "ok"
                  /\ TopLevel => LiquidateError(c, id) = "AlreadyRepaid"
             /\ \A v \in RepayProbes :
                  /\ RepayError(activeLoans[id].borrower, id, v) # "ok"
                  /\ (TopLevel /\ ~paused) =>
                        RepayError(activeLoans[id].borrower, id, v) = "AlreadyRepaid"

C1_Witness ==
    \E i, j \in LoanIds :
        /\ TopLevel /\ ~paused
        /\ Funded(i) /\ Funded(j)
        /\ settlements[i] = <<"repay">> /\ now > activeLoans[i].endTime
        /\ settlements[j] = <<"liquidate">>

(* What account a holds while the operation of frame f is in flight, if    *)
(* each of its outbound calls made so far paid exactly once.               *)
Received(f, a, j) ==
    IF j <= f.k /\ TransferOf(f, j).to = a THEN TransferOf(f, j).amount ELSE 0

ExpectedInFlight(f, a) ==
    f.snap.balance[a] - (IF a = f.sender THEN f.value ELSE 0)
    + Received(f, a, 1) + Received(f, a, 2) + Received(f, a, 3)

(* C2: while a guarded operation is in flight, every fundLoanRequest,      *)
(* repayLoan and liquidateExpiredLoan fails with Reentrant, no second      *)
(* operation is stacked on it, and no account holds more than the          *)
(* operation's own outbound calls gave it.                                 *)
C2_NoReentry ==
    stack # <<>> =>
        /\ Len(stack) = 1
        /\ \A c \in Addr :
             /\ \A id \in RequestIds : \A v \in Around(loanRequests[id].loanAmount) :
                    FundError(c, id, v) = "Reentrant"
             /\ \A id \in LoanIds : \A v \in RepayProbes :
                    RepayError(c, id, v) = "Reentrant"
             /\ \A id \in LoanIds : LiquidateError(c, id) = "Reentrant"
        /\ \A a \in Addr \cup {ZERO} : balance[a] <= ExpectedInFlight(Top, a)

C2_Witness ==
    /\ stack # <<>>
    /\ Top.op = "repay"
    /\ totalRequests > Top.snap.totalRequests

(* C3: a guarded operation starts from a snapshot of the state before it,  *)
(* and when the recipient of one of its outbound calls rejects, the state  *)
(* (ledger, counters, index lists, balances) is that snapshot again.       *)
C3_AllOrNothing ==
    [][ /\ Len(stack') = Len(stack) + 1 => stack'[Len(stack')].snap = World
        /\ CallbackReject => (World' = Top.snap /\ stack' = Pop) ]_vars

C3_Witness ==
    /\ stack # <<>>
    /\ Top.op = "repay"
    /\ Top.k = 2
    /\ TransferOf(Top, 1).amount > 0
    /\ balance # Top.snap.balance

CreateProbes == {1, 2} \cup Amounts

C5_ValidatedInputs ==
    /\ \A amount \in CreateProbes, d \in 0 .. 2, r \in 0 .. (MAX_INTEREST_RATE + 2) :
         LET e == CreateError(amount, d, r, 2 * amount) IN
         /\ (amount = 0 \/ d = 0 \/ r = 0 \/ r > MAX_INTEREST_RATE) => e # "ok"
         /\ ~paused =>
              /\ amount = 0 => e = "InvalidAmount"
              /\ (amount > 0 /\ d = 0) => e = "InvalidDuration"
              /\ (amount > 0 /\ d > 0 /\ (r = 0 \/ r > MAX_INTEREST_RATE)) =>
                    e = "InvalidRate"
    /\ \A id \in RequestIds :
         id < totalRequests =>
           /\ loanRequests[id].loanAmount > 0
           /\ loanRequests[id].duration > 0
           /\ loanRequests[id].interestRate > 0
           /\ loanRequests[id].interestRate <= MAX_INTEREST_RATE
    /\ \A id \in LoanIds :
         Funded(id) =>
           /\ activeLoans[id].loanAmount > 0
           /\ activeLoans[id].endTime > activeLoans[id].startTimestamp
           /\ activeLoans[id].interestRate > 0
           /\ activeLoans[id].interestRate <= MAX_INTEREST_RATE

C5_Witness ==
    \E id \in LoanIds :
        /\ Funded(id)
        /\ activeLoans[id].interestRate = MAX_INTEREST_RATE
        /\ totalRequests = MaxRequests

(* C6: as of each completed transaction, a stored request changes only in  *)
(* isActive, which goes from true to false with exactly one new loan and   *)
(* never back; requests are never removed; there are as many loans as      *)
(* consumed requests; funding a consumed request fails (with               *)
(* RequestNotActive for a top-level call that passes the pause gate).      *)
ConsumedRequests(w) ==
    {id \in RequestIds : id < w.totalRequests /\ ~w.loanRequests[id].isActive}

FundFailsOnConsumed ==
    \A id \in RequestIds, c \in Addr :
        (id < totalRequests /\ ~loanRequests[id].isActive) =>
            \A v \in Around(loanRequests[id].loanAmount) :
                /\ FundError(c, id, v) # "ok"
                /\ (TopLevel /\ ~paused) => FundError(c, id, v) = "RequestNotActive"

C6_ConsumedOnce ==
    /\ []FundFailsOnConsumed
    /\ [][ /\ \A id \in RequestIds :
             id < Committed.totalRequests =>
               /\ [Committed'.loanRequests[id] EXCEPT
                      !.isActive = Committed.loanRequests[id].isActive]
                    = Committed.loanRequests[id]
               /\ Committed'.loanRequests[id].isActive =>
                      Committed.loanRequests[id].isActive
               /\ (Committed.loanRequests[id].isActive
                     /\ ~Committed'.loanRequests[id].isActive) =>
                      Committed'.totalLoans = Committed.totalLoans + 1
        /\ Committed'.totalRequests >= Committed.totalRequests
        /\ Committed'.totalLoans = Cardinality(ConsumedRequests(Committed')) ]_vars

C6_Witness ==
    /\ TopLevel /\ ~paused
    /\ totalLoans = 1
    /\ \E id \in RequestIds : id < totalRequests /\ ~loanRequests[id].isActive
    /\ \E id \in RequestIds : id < totalRequests /\ loanRequests[id].isActive

(* C7: as of each completed transaction, isRepaid never goes back to       *)
(* false and no other field of a funded loan ever changes.                 *)
C7_LoanFixed ==
    [][ \A id \in LoanIds :
          /\ Committed.activeLoans[id].isRepaid => Committed'.activeLoans[id].isRepaid
          /\ id < Committed.totalLoans =>
               [Committed'.activeLoans[id] EXCEPT
                   !.isRepaid = Committed.activeLoans[id].isRepaid]
                 = Committed.activeLoans[id] ]_vars

C7_Witness ==
    /\ TopLevel
    /\ \E i, j \in LoanIds :
         /\ Funded(i) /\ Funded(j) /\ i # j
         /\ settlements[i] = <<"repay">>
         /\ settlements[j] = <<"liquidate">>
         /\ activeLoans[i].lender # activeLoans[j].lender

(* C8: a top-level liquidate on an unrepaid loan fails with NotExpired     *)
(* while now <= end and passes once now > end; when it completes, the      *)
(* caller has received floor(stake x bonusBp / 10000) and the lender the   *)
(* rest of the stake.                                                      *)
Floor(n, d, max) == CHOOSE q \in 0 .. max : q * d <= n /\ (q + 1) * d > n

ExpiryRule ==
    \A id \in LoanIds, c \in Addr :
        (TopLevel /\ ~activeLoans[id].isRepaid) =>
            /\ now <= activeLoans[id].endTime => LiquidateError(c, id) = "NotExpired"
            /\ now > activeLoans[id].endTime => LiquidateError(c, id) = "ok"

LiquidationCompletes ==
    /\ Len(stack) = 1
    /\ stack' = <<>>
    /\ Top.op = "liquidate"
    /\ activeLoans'[Top.id].isRepaid

C9_Permissionless ==
    /\ \A id \in LoanIds, c \in Addr :
         (TopLevel /\ ~activeLoans[id].isRepaid /\ now > activeLoans[id].endTime) =>
             /\ LiquidateError(c, id) = "ok"
             /\ balance[THIS] >= activeLoans[id].stake
    /\ (stack # <<>> /\ Top.op = "liquidate" /\ Top.k = 1) =>
             balance[THIS] >= Top.toLender

C9_Witness ==
    /\ stack # <<>>
    /\ Top.op = "liquidate"
    /\ Top.id < Top.snap.totalLoans
    /\ Top.snap.paused
    /\ PriceError # "ok"
    /\ Top.sender # activeLoans[Top.id].borrower
    /\ Top.sender # activeLoans[Top.id].lender
    /\ Top.toLender > 0

(* C10: while paused, createLoanRequest, fundLoanRequest and repayLoan     *)
(* fail (with Paused at top level) and liquidate of an expired unrepaid    *)
(* loan passes; when not paused the three pass under their own             *)
(* preconditions; only the owner's pause and unpause change the flag.      *)
PauseGate ==
    /\ paused =>
         \A c \in Addr :
           /\ \A in \in CreateInputs :
                /\ CreateError(in[1], in[2], in[3], in[4]) # "ok"
                /\ TopLevel => CreateError(in[1], in[2], in[3], in[4]) = "Paused"
           /\ \A id \in RequestIds : \A v \in Around(loanRequests[id].loanAmount) :
                /\ FundError(c, id, v) # "ok"
                /\ TopLevel => FundError(c, id, v) = "Paused"
           /\ \A id \in LoanIds : \A v \in RepayValues(id) \cup RepayProbes :
                /\ RepayError(c, id, v) # "ok"
                /\ TopLevel => RepayError(c, id, v) = "Paused"
    /\ \A id \in LoanIds, c \in Addr :
         (TopLevel /\ ~activeLoans[id].isRepaid /\ now > activeLoans[id].endTime) =>
             LiquidateError(c, id) = "ok"
    /\ (~paused /\ TopLevel) =>
         /\ \A in \in CreateInputs :
              Defects(in[1], in[2], in[3], in[4]) = 0 =>
                  CreateError(in[1], in[2], in[3], in[4]) = "ok"
         /\ \A id \in RequestIds, c \in Addr :
              loanRequests[id].isActive =>
                  FundError(c, id, loanRequests[id].loanAmount) = PriceError
         /\ \A id \in LoanIds :
              (Funded(id) /\ ~activeLoans[id].isRepaid /\ PriceError = "ok") =>
                  RepayError(activeLoans[id].borrower, id, RepayDue(id)) = "ok"
    /\ \A c \in Addr : c # owner => PauseError(c) # "ok"

C10_PauseGate ==
    /\ []PauseGate
    /\ [][ paused' # paused =>
             \/ \E c \in Addr : c = owner /\ (Pause(c) \/ Unpause(c))
             \/ (stack # <<>> /\ Revert) ]_vars

C10_Witness ==
    /\ stack # <<>>
    /\ Top.op = "liquidate"
    /\ Top.snap.paused
    /\ paused
    /\ Top.id < Top.snap.totalLoans
    /\ \E id \in RequestIds : loanRequests[id].isActive

(* C11: a repayLoan that starts has dueEth = the amount due at that moment *)
(* (penalty included) and msg.value >= dueEth; when it completes, the      *)
(* lender has received dueEth, the borrower the loan's stake and the       *)
(* excess msg.value - dueEth, the contract has paid out msg.value + stake  *)
(* and isRepaid is true.                                                   *)
Starts(op) == Len(stack') = Len(stack) + 1 /\ stack'[Len(stack')].op = op

RepayCompletes ==
    /\ Len(stack) = 1
    /\ stack' = <<>>
    /\ Top.op = "repay"
    /\ activeLoans'[Top.id].isRepaid

C11_RepayPayout ==
    [][ /\ Starts("repay") =>
             LET f == stack'[Len(stack')] IN
             /\ f.dueEth = RepayDue(f.id)
             /\ f.value >= f.dueEth
             /\ f.sender = activeLoans[f.id].borrower
        /\ (RepayCompletes /\ totalRequests' = Top.snap.totalRequests) =>
             LET w        == Top.snap
                 loan     == w.activeLoans[Top.id]
                 v        == Top.value
                 d        == Top.dueEth
             IN  /\ \A a \in Addr \cup {ZERO} :
                       balance'[a] = w.balance[a]
                                     - (IF a = Top.sender THEN v ELSE 0)
                                     + (IF a = loan.lender THEN d ELSE 0)
                                     + (IF a = loan.borrower THEN loan.stake + (v - d) ELSE 0)
                 /\ balance'[THIS] = w.balance[THIS] + v - (v + loan.stake)
                 /\ ~loan.isRepaid ]_vars

C11_Witness ==
    /\ stack # <<>>
    /\ Top.op = "repay"
    /\ Top.k = 3
    /\ Top.value > Top.dueEth
    /\ Top.dueEth > activeLoans[Top.id].loanAmount
    /\ now > activeLoans[Top.id].endTime
    /\ activeLoans[Top.id].stake > 0

(* C12: repayLoan fails for a caller who is not the loan's borrower (the   *)
(* lender and every caller of a never-funded id included), for a loan      *)
(* already repaid, for msg.value = 0 and for msg.value below the amount    *)
(* due, with the label of the first failing check; a repay only ever       *)
(* starts, and isRepaid only ever turns true, when every check passed.     *)
RepayRejects ==
    \A id \in LoanIds, c \in Addr :
        \A v \in RepayValues(id) \cup RepayProbes :
            LET e     == RepayError(c, id, v)
                loan  == activeLoans[id]
                gates == TopLevel /\ ~paused
            IN  /\ c # loan.borrower =>
                      e # "ok" /\ (gates => e = "NotBorrower")
                /\ loan.isRepaid =>
                      e # "ok" /\ ((gates /\ c = loan.borrower) => e = "AlreadyRepaid")
                /\ v = 0 =>
                      e # "ok" /\ ((gates /\ c = loan.borrower /\ ~loan.isRepaid) =>
                                      e = "InvalidRepayAmount")
                /\ (CalculateAmountDueError(id) = "ok" /\ v < RepayDue(id)) =>
                      e # "ok" /\ ((gates /\ c = loan.borrower /\ v > 0) =>
                                      e = "InsufficientPayment")

C12_RepayRejects ==
    /\ []RepayRejects
    /\ [][ /\ Starts("repay") =>
               LET f == stack'[Len(stack')] IN RepayError(f.sender, f.id, f.value) = "ok"
           /\ \A id \in LoanIds :
               (~activeLoans[id].isRepaid /\ activeLoans'[id].isRepaid) =>
                   (Starts("repay") \/ Starts("liquidate")) ]_vars

C12_Witness ==
    /\ TopLevel /\ ~paused
    /\ Funded(0) /\ ~Funded(1)
    /\ ~activeLoans[0].isRepaid
    /\ activeLoans[0].lender # activeLoans[0].borrower
    /\ now > activeLoans[0].endTime
    /\ RepayDue(0) > 1

(* C13: the amount repayLoan requires is the amount due while now <= end   *)
(* and the penalised amount once now > end.  The penalised amount is the   *)
(* amount due itself when penaltyBp = 0 and otherwise                      *)
(* ((due x price / SCALE) + (due x price / SCALE) x penaltyBp / 10000)     *)
(* x SCALE / price; it is no less than the amount due when due x price is  *)
(* a multiple of SCALE, and with price >= SCALE never more than 1 below.   *)
Priced(id) == Funded(id) /\ ~activeLoans[id].isRepaid /\ PriceError = "ok"

PenaltyFormula(due, price, bp) ==
    ((((due * price) \div SCALE) + ((((due * price) \div SCALE) * bp) \div BP_DENOMINATOR))
        * SCALE) \div price

PenaltyRule ==
    \A id \in LoanIds :
        Priced(id) =>
            LET due   == CalculateAmountDueEth(id)
                price == GetEthUsdPrice
                bp    == overdueRepayPenaltyBp
            IN  /\ now <= activeLoans[id].endTime => RepayDue(id) = due
                /\ (now > activeLoans[id].endTime /\ bp > 0) =>
                       RepayDue(id) = PenaltyFormula(due, price, bp)
                /\ bp = 0 => RepayDue(id) = due
                /\ (due * price) % SCALE = 0 => RepayDue(id) >= due
                /\ price >= SCALE => RepayDue(id) >= due - 1

C13_PenaltyWhenOverdue ==
    /\ []PenaltyRule
    /\ [][ Starts("repay") =>
             LET f == stack'[Len(stack')] IN
             f.dueEth = IF now > activeLoans[f.id].endTime /\ overdueRepayPenaltyBp > 0
                        THEN PenaltyFormula(CalculateAmountDueEth(f.id), GetEthUsdPrice,
                                            overdueRepayPenaltyBp)
                        ELSE CalculateAmountDueEth(f.id) ]_vars

C13_Witness ==
    /\ stack # <<>>
    /\ Top.op = "repay"
    /\ Top.snap.overdueRepayPenaltyBp > 0
    /\ now > activeLoans[Top.id].endTime
    /\ Top.dueEth > activeLoans[Top.id].loanAmount

(* C13 as stated: the penalised amount is never less than the amount due. *)
C13_NeverLess ==
    \A id \in LoanIds :
        Priced(id) =>
            /\ now <= activeLoans[id].endTime => RepayDue(id) = CalculateAmountDueEth(id)
            /\ (now > activeLoans[id].endTime /\ overdueRepayPenaltyBp > 0) =>
                   RepayDue(id) = PenaltyFormula(CalculateAmountDueEth(id), GetEthUsdPrice,
                                                 overdueRepayPenaltyBp)
            /\ RepayDue(id) >= CalculateAmountDueEth(id)
            /\ overdueRepayPenaltyBp = 0 => RepayDue(id) = CalculateAmountDueEth(id)

(* C14: the step that starts a fundLoanRequest writes, at the next loan id, *)
(* the request's borrower, loanAmount, stake, rate and propertyUnits, the  *)
(* caller as lender, start = now, end = now + duration days and the price  *)
(* the oracle gives at that moment; when the funding completes the         *)
(* borrower has received loanAmount from the lender; the stored            *)
(* initialEthPrice of a loan never changes afterwards.                     *)
OraclePrice == IF ethUsdFeed = ZERO THEN demoFixedEthUsdPrice ELSE feedAnswer * FEED_SCALE

FundCompletes ==
    /\ Len(stack) = 1
    /\ stack' = <<>>
    /\ Top.op = "fund"
    /\ ~loanRequests'[Top.id].isActive

C14_FundCopies ==
    [][ /\ Starts("fund") =>
             LET f == stack'[Len(stack')]
                 r == loanRequests[f.id]
                 l == activeLoans'[totalLoans]
             IN  /\ totalLoans' = totalLoans + 1
                 /\ l.borrower = r.borrower
                 /\ l.loanAmount = r.loanAmount
                 /\ l.stake = r.stake
                 /\ l.interestRate = r.interestRate
                 /\ l.propertyUnits = r.propertyUnits
                 /\ l.lender = f.sender
                 /\ l.startTimestamp = now
                 /\ l.endTime = now + r.duration * Day
                 /\ l.initialEthPrice = OraclePrice
                 /\ f.value = r.loanAmount
        /\ (FundCompletes /\ totalRequests' = Top.snap.totalRequests) =>
             LET w == Top.snap
                 r == w.loanRequests[Top.id]
             IN  /\ \A a \in Addr \cup {ZERO} :
                       balance'[a] = w.balance[a]
                                     - (IF a = Top.sender THEN r.loanAmount ELSE 0)
                                     + (IF a = r.borrower THEN r.loanAmount ELSE 0)
                 /\ balance'[THIS] = w.balance[THIS]
        /\ \A id \in LoanIds :
             id < Committed.totalLoans =>
                 Committed'.activeLoans[id].initialEthPrice
                     = Committed.activeLoans[id].initialEthPrice ]_vars

C14_Witness ==
    /\ TopLevel
    /\ Funded(0)
    /\ PriceError = "ok"
    /\ ethUsdFeed # ZERO
    /\ activeLoans[0].initialEthPrice = 15 * FEED_SCALE
    /\ OraclePrice = 20 * FEED_SCALE
    /\ demoFixedEthUsdPrice # DEMO_PRICE_USD * SCALE
    /\ activeLoans[0].endTime = activeLoans[0].startTimestamp + Day
    /\ balance[activeLoans[0].borrower] > StartFunds - activeLoans[0].stake

(* C15: fundLoanRequest fails for a request id never created and for a     *)
(* request already funded (RequestNotActive) and for msg.value below or    *)
(* above loanAmount (AmountMismatch); a funding only ever starts, and the  *)
(* loan counter and the index lists only ever change, when every check     *)
(* passed.                                                                 *)
FundRejects ==
    \A id \in RequestIds, c \in Addr :
        \A v \in {0} \cup Around(loanRequests[id].loanAmount) :
            LET e     == FundError(c, id, v)
                gates == TopLevel /\ ~paused
            IN  /\ (id >= totalRequests \/ ~loanRequests[id].isActive) =>
                      e # "ok" /\ (gates => e = "RequestNotActive")
                /\ (loanRequests[id].isActive /\ v # loanRequests[id].loanAmount) =>
                      e # "ok" /\ (gates => e = "AmountMismatch")

C15_FundRejects ==
    /\ []FundRejects
    /\ [][ /\ Starts("fund") =>
               LET f == stack'[Len(stack')] IN
               /\ FundError(f.sender, f.id, f.value) = "ok"
               /\ f.id < totalRequests
           /\ (totalLoans' > totalLoans
                 \/ Len(borrowerToLoanIds'[ZERO]) > Len(borrowerToLoanIds[ZERO])
                 \/ \E a \in Addr :
                      \/ Len(borrowerToLoanIds'[a]) > Len(borrowerToLoanIds[a])
                      \/ Len(lenderToLoanIds'[a]) > Len(lenderToLoanIds[a])
                 \/ \E id \in RequestIds :
                      /\ id < totalRequests'
                      /\ loanRequests[id].isActive /\ ~loanRequests'[id].isActive) =>
               Starts("fund") ]_vars

C15_Witness ==
    /\ TopLevel /\ ~paused
    /\ totalRequests = 2
    /\ ~loanRequests[0].isActive
    /\ loanRequests[1].isActive
    /\ loanRequests[MaxRequests] = EmptyRequest
    /\ balance["a3"] > loanRequests[1].loanAmount

(* C16: on each settlement path the terminal flag is set and the           *)
(* operation's event is recorded by the time its first outbound call is    *)
(* made: in the state the first recipient's callback sees, the request is  *)
(* inactive with LoanFunded recorded, or the loan is repaid with           *)
(* LoanRepaid, respectively LoanLiquidated, recorded.                      *)
C16_EffectsBeforeTransfers ==
    [][ /\ Starts("fund") =>
             /\ ~loanRequests'[stack'[Len(stack')].id].isActive
             /\ lastEvent'.name = "LoanFunded"
        /\ Starts("repay") =>
             /\ activeLoans'[stack'[Len(stack')].id].isRepaid
             /\ lastEvent'.name = "LoanRepaid"
        /\ (Starts("liquidate") /\ Funded(stack'[Len(stack')].id)) =>
             /\ activeLoans'[stack'[Len(stack')].id].isRepaid
             /\ lastEvent'.name = "LoanLiquidated" ]_vars

(* C17: with a feed configured and now - updatedAt above the staleness     *)
(* bound the price read fails (with StalePrice when the answer is          *)
(* positive), and with it fundLoanRequest, calculateAmountDueEth and       *)
(* repayLoan; at now - updatedAt equal to the bound a positive answer is   *)
(* accepted; a funding or repayment that starts with a feed configured     *)
(* has a fresh positive answer, and the funding stores the feed's price.   *)
Stale == ethUsdFeed # ZERO /\ now - feedUpdatedAt > maxPriceStalenessSeconds

StaleRule ==
    /\ Stale =>
         /\ PriceError # "ok"
         /\ feedAnswer > 0 => PriceError = "StalePrice"
         /\ \A c \in Addr :
              /\ \A id \in RequestIds : \A v \in Around(loanRequests[id].loanAmount) :
                   /\ FundError(c, id, v) # "ok"
                   /\ (TopLevel /\ ~paused /\ feedAnswer > 0 /\ loanRequests[id].isActive
                         /\ v = loanRequests[id].loanAmount) =>
                        FundError(c, id, v) = "StalePrice"
              /\ \A id \in LoanIds : \A v \in RepayProbes :
                   /\ RepayError(c, id, v) # "ok"
                   /\ (TopLevel /\ ~paused /\ feedAnswer > 0 /\ v > 0
                         /\ c = activeLoans[id].borrower /\ ~activeLoans[id].isRepaid) =>
                        RepayError(c, id, v) = "StalePrice"
         /\ \A id \in LoanIds :
              /\ CalculateAmountDueError(id) # "ok"
              /\ (feedAnswer > 0 /\ ~activeLoans[id].isRepaid) =>
                     CalculateAmountDueError(id) = "StalePrice"
    /\ (ethUsdFeed # ZERO /\ feedAnswer > 0
          /\ now - feedUpdatedAt = maxPriceStalenessSeconds) => PriceError = "ok"

C17_StaleRejected ==
    /\ []StaleRule
    /\ [][ ethUsdFeed # ZERO =>
             /\ (Starts("fund") \/ Starts("repay")) => (~Stale /\ feedAnswer > 0)
             /\ Starts("fund") =>
                  activeLoans'[totalLoans].initialEthPrice = feedAnswer * FEED_SCALE
             /\ Starts("repay") =>
                  stack'[Len(stack')].dueEth
                    = LET id == stack'[Len(stack')].id
                          due == AmountDue(activeLoans[id].loanAmount,
                                           activeLoans[id].initialEthPrice,
                                           activeLoans[id].interestRate, Elapsed(id),
                                           feedAnswer * FEED_SCALE)
                      IN  IF now > activeLoans[id].endTime
                          THEN ApplyOverduePenaltyEth(due, feedAnswer * FEED_SCALE,
                                                      overdueRepayPenaltyBp)
                          ELSE due ]_vars

C17_Witness ==
    /\ TopLevel /\ ~paused
    /\ Stale
    /\ feedAnswer > 0
    /\ demoFixedEthUsdPrice > 0
    /\ Funded(0) /\ ~activeLoans[0].isRepaid
    /\ balance[activeLoans[0].borrower] >= StartFunds - activeLoans[0].loanAmount

(* C18: the fixed price is positive in every state and setting it to 0    *)
(* fails; without a feed the price read succeeds and gives the fixed       *)
(* price; with a feed it fails with InvalidPrice for an answer <= 0 and    *)
(* otherwise, when it succeeds, gives answer x FEED_SCALE; a price read    *)
(* that succeeds is positive, so every funding and repayment that starts   *)
(* has divided by a positive price.                                        *)
PositivePrice ==
    /\ demoFixedEthUsdPrice > 0
    /\ \A c \in Addr : SetDemoFixedEthUsdPriceError(c, 0) # "ok"
    /\ ethUsdFeed = ZERO =>
         PriceError = "ok" /\ GetEthUsdPrice = demoFixedEthUsdPrice
    /\ (ethUsdFeed # ZERO /\ feedAnswer <= 0) => PriceError = "InvalidPrice"
    /\ (ethUsdFeed # ZERO /\ PriceError = "ok") =>
         GetEthUsdPrice = feedAnswer * FEED_SCALE
    /\ PriceError = "ok" => GetEthUsdPrice > 0

C18_PositivePrice ==
    /\ []PositivePrice
    /\ [][ /\ (Starts("fund") \/ Starts("repay")) => OraclePrice > 0
           /\ Starts("fund") => activeLoans'[totalLoans].initialEthPrice > 0
           /\ demoFixedEthUsdPrice' # demoFixedEthUsdPrice =>
                \/ \E price \in DemoPrices :
                     price > 0 /\ SetDemoFixedEthUsdPrice(owner, price)
                \/ (stack # <<>> /\ Revert) ]_vars

C18_Witness ==
    /\ TopLevel
    /\ ethUsdFeed # ZERO
    /\ feedAnswer < 0
    /\ demoFixedEthUsdPrice = (DEMO_PRICE_USD \div 2) * SCALE
    /\ Funded(0) /\ ~activeLoans[0].isRepaid

(* C19: for a loan and a price, the amount due does not decrease as the    *)
(* elapsed time grows, and it grows strictly whenever the interest of the  *)
(* interval, floor(principalUsd x rate x (t2 - t1) / (365 days x 100)),    *)
(* is worth at least one unit at that price; as time passes at an          *)
(* unchanged price the amount due of a loan does not decrease.             *)
ElapsedProbes == {0, 1, 2, 3, 50}

DueAt(id, t) ==
    AmountDue(activeLoans[id].loanAmount, activeLoans[id].initialEthPrice,
              activeLoans[id].interestRate, t, GetEthUsdPrice)

IntervalInterestUsd(id, t1, t2) ==
    ((((activeLoans[id].loanAmount * activeLoans[id].initialEthPrice) \div SCALE)
        * activeLoans[id].interestRate) * (t2 - t1)) \div (Year * PERCENT)

MonotoneDue ==
    \A id \in LoanIds :
        Priced(id) =>
            /\ CalculateAmountDueEth(id) = DueAt(id, Elapsed(id))
            /\ \A t1, t2 \in ElapsedProbes :
                 t1 <= t2 =>
                   /\ DueAt(id, t1) <= DueAt(id, t2)
                   /\ IntervalInterestUsd(id, t1, t2) * SCALE >= GetEthUsdPrice =>
                          DueAt(id, t1) < DueAt(id, t2)

C19_MonotoneDue ==
    /\ []MonotoneDue
    /\ [][ \A id \in LoanIds :
             (now' > now /\ Priced(id) /\ Priced(id)') =>
                 /\ Elapsed(id)' = Elapsed(id) + 1
                 /\ CalculateAmountDueEth(id)' >= CalculateAmountDueEth(id) ]_vars

C19_Witness ==
    /\ TopLevel
    /\ Priced(0)
    /\ Elapsed(0) = 2
    /\ GetEthUsdPrice = activeLoans[0].initialEthPrice
    /\ DueAt(0, 0) = DueAt(0, 1)
    /\ DueAt(0, 1) < DueAt(0, 2)
    /\ CalculateAmountDueEth(0) > activeLoans[0].loanAmount

(* C19 as stated: with rate > 0 the amount due grows strictly with the     *)
(* elapsed time.                                                           *)
C19_StrictlyIncreasing ==
    \A id \in LoanIds :
        Priced(id) =>
            \A t1, t2 \in ElapsedProbes :
                /\ t1 <= t2 => DueAt(id, t1) <= DueAt(id, t2)
                /\ (t1 < t2 /\ activeLoans[id].interestRate > 0) =>
                       DueAt(id, t1) < DueAt(id, t2)

(* C20: while now <= start the amount due holds no interest: it is         *)
(* (loanAmount x initialPrice / SCALE) x SCALE / currentPrice; at          *)
(* currentPrice = initialPrice that is at most loanAmount, equal to        *)
(* loanAmount when loanAmount x initialPrice is a multiple of SCALE, and   *)
(* with price >= SCALE never more than 1 below.                            *)
NoInterestDue(id) ==
    ((((activeLoans[id].loanAmount * activeLoans[id].initialEthPrice) \div SCALE)) * SCALE)
        \div GetEthUsdPrice

C20_NoInterestAtStart ==
    \A id \in LoanIds :
        (Priced(id) /\ now <= activeLoans[id].startTimestamp) =>
            LET due == CalculateAmountDueEth(id)
                L   == activeLoans[id].loanAmount
                p0  == activeLoans[id].initialEthPrice
            IN  /\ due = NoInterestDue(id)
                /\ GetEthUsdPrice = p0 =>
                     /\ due <= L
                     /\ (L * p0) % SCALE = 0 => due = L
                     /\ p0 >= SCALE => due >= L - 1

C20_Witness ==
    /\ Priced(0)
    /\ now = activeLoans[0].startTimestamp
    /\ now > 1
    /\ GetEthUsdPrice = activeLoans[0].initialEthPrice
    /\ activeLoans[0].loanAmount > 1
    /\ CalculateAmountDueEth(0) = activeLoans[0].loanAmount

(* C20 as stated: at elapsed 0 and currentPrice = initialPrice the amount  *)
(* due equals loanAmount.                                                  *)
C20_EqualsLoanAmount ==
    \A id \in LoanIds :
        (Priced(id) /\ now <= activeLoans[id].startTimestamp) =>
            /\ CalculateAmountDueEth(id) = NoInterestDue(id)
            /\ GetEthUsdPrice = activeLoans[id].initialEthPrice =>
                   CalculateAmountDueEth(id) = activeLoans[id].loanAmount

(* C21: the amount due is ((P + I) x SCALE) / currentPrice with            *)
(* P = loanAmount x initialPrice / SCALE and                               *)
(* I = P x rate x elapsed / (365 days x 100), every division truncating.   *)
(* At currentPrice = initialPrice it is principal plus simple annual       *)
(* interest, loanAmount + loanAmount x rate x elapsed / (365 days x 100),  *)
(* up to truncation: never above it, equal to it when the price is a       *)
(* whole multiple of SCALE, and at most 3 below it when the price is at    *)
(* least SCALE and rate x elapsed < 365 days x 100.  10 units at 5% for    *)
(* 365 days at a price of 2000 are 10.5 units.                             *)
ExampleUnit == 10

SimpleInterestDue(id, t) ==
    activeLoans[id].loanAmount
      + ((activeLoans[id].loanAmount * activeLoans[id].interestRate * t)
            \div (Year * PERCENT))

C21_SimpleInterest ==
    /\ \A id \in LoanIds :
         Priced(id) =>
            LET L  == activeLoans[id].loanAmount
                p0 == activeLoans[id].initialEthPrice
                r  == activeLoans[id].interestRate
                p  == GetEthUsdPrice
                principal_value == (L * p0) \div SCALE
            IN  /\ CalculateAmountDueEth(id)
                     = ((principal_value
                          + ((principal_value * r * Elapsed(id)) \div (Year * PERCENT)))
                        * SCALE) \div p
                /\ \A t \in ElapsedProbes \cup {Elapsed(id)} :
                     /\ DueAt(id, t)
                          = ((principal_value
                               + ((principal_value * r * t) \div (Year * PERCENT)))
                             * SCALE) \div p
                     /\ p = p0 =>
                          /\ DueAt(id, t) <= SimpleInterestDue(id, t)
                          /\ p0 % SCALE = 0 => DueAt(id, t) = SimpleInterestDue(id, t)
                          /\ (p0 >= SCALE /\ r * t < Year * PERCENT) =>
                                 DueAt(id, t) >= SimpleInterestDue(id, t) - 3
    /\ 2 * AmountDue(10 * ExampleUnit, DEMO_PRICE_USD * SCALE, 5, Year,
                     DEMO_PRICE_USD * SCALE) = 21 * ExampleUnit

C21_Witness ==
    /\ TopLevel
    /\ Priced(0)
    /\ Elapsed(0) = 2
    /\ GetEthUsdPrice = activeLoans[0].initialEthPrice
    /\ activeLoans[0].initialEthPrice % SCALE = 0
    /\ CalculateAmountDueEth(0) = SimpleInterestDue(0, 2)
    /\ SimpleInterestDue(0, 2) > activeLoans[0].loanAmount

(* C22: for a loan and an elapsed time the amount due does not grow with   *)
(* the current price: p1 <= p2 implies due(p2) <= due(p1), and             *)
(* due(p2) < due(p1) whenever due(p2) x (p2 - p1) >= p1.  So the amount    *)
(* due is not below the amount due at the funding price when the current   *)
(* price is below the funding price, and when the current price is above   *)
(* it is not above the amount due at the funding price nor above           *)
(* loanAmount plus simple interest.                                        *)
PriceProbes(id) ==
    {a * FEED_SCALE : a \in {x \in DustAnswers : x > 0}}
      \cup {p \in DemoPrices : p > 0}
      \cup {DEMO_PRICE_USD * SCALE, activeLoans[id].initialEthPrice,
            activeLoans[id].initialEthPrice + 1, GetEthUsdPrice}

DueAtPrice(id, t, p) ==
    AmountDue(activeLoans[id].loanAmount, activeLoans[id].initialEthPrice,
              activeLoans[id].interestRate, t, p)

C22_InversePrice ==
    \A id \in LoanIds :
        Priced(id) =>
            LET p0 == activeLoans[id].initialEthPrice
                e  == Elapsed(id)
            IN  /\ CalculateAmountDueEth(id) = DueAtPrice(id, e, GetEthUsdPrice)
                /\ \A t \in {e, 50} : \A p1, p2 \in PriceProbes(id) :
                     p1 <= p2 =>
                       /\ DueAtPrice(id, t, p2) <= DueAtPrice(id, t, p1)
                       /\ DueAtPrice(id, t, p2) * (p2 - p1) >= p1 =>
                              DueAtPrice(id, t, p2) < DueAtPrice(id, t, p1)
                /\ GetEthUsdPrice < p0 =>
                     CalculateAmountDueEth(id) >= DueAtPrice(id, e, p0)
                /\ GetEthUsdPrice > p0 =>
                     /\ CalculateAmountDueEth(id) <= DueAtPrice(id, e, p0)
                     /\ CalculateAmountDueEth(id) <= SimpleInterestDue(id, e)

C22_Witness ==
    /\ TopLevel
    /\ Priced(0)
    /\ Elapsed(0) = 2
    /\ GetEthUsdPrice < activeLoans[0].initialEthPrice
    /\ CalculateAmountDueEth(0) > SimpleInterestDue(0, 2)
    /\ \E p \in PriceProbes(0) :
         /\ p > activeLoans[0].initialEthPrice
         /\ DueAtPrice(0, 2, p) < activeLoans[0].loanAmount

(* C22 as stated: the amount due is above loanAmount plus interest when    *)
(* the current price is below the funding price, and below it when the     *)
(* current price is above.                                                 *)
C22_AboveAndBelow ==
    \A id \in LoanIds :
        Priced(id) =>
            /\ \A p1, p2 \in PriceProbes(id) :
                 p1 <= p2 => DueAtPrice(id, Elapsed(id), p2) <= DueAtPrice(id, Elapsed(id), p1)
            /\ GetEthUsdPrice < activeLoans[id].initialEthPrice =>
                 CalculateAmountDueEth(id) > SimpleInterestDue(id, Elapsed(id))
            /\ GetEthUsdPrice > activeLoans[id].initialEthPrice =>
                 CalculateAmountDueEth(id) < SimpleInterestDue(id, Elapsed(id))

(* C23: every owner operation called by another account fails with         *)
(* OnlyOwner and no step that changes the state is such a call; the        *)
(* owner, the pause flag, the parameters, the feed, the fixed price and    *)
(* the real-estate source change only in an operation called by the owner  *)
(* (or when a reverting transaction restores them).  transferOwnership to  *)
(* the zero address fails: the owner is never the zero address, and once   *)
(* the owner changes the previous owner is refused everywhere.  Both       *)
(* basis-point parameters are at most 5000 in every state, and             *)
(* updateParams with either above 5000 fails and changes nothing.          *)
BpProbes == {0, DEFAULT_BP, MAX_BP, MAX_BP + 1}

RefusedEverywhere(c) ==
    /\ \A newOwner \in NewOwners \cup Addr : TransferOwnershipError(c, newOwner) = "OnlyOwner"
    /\ PauseError(c) = "OnlyOwner"
    /\ \A p, b \in BpProbes : UpdateParamsError(c, p, b) = "OnlyOwner"
    /\ UpdateOracleError(c) = "OnlyOwner"
    /\ \A price \in DemoPrices : SetDemoFixedEthUsdPriceError(c, price) = "OnlyOwner"
    /\ \A o \in RwaOracles : UpdateRealEstateOracleError(c, o) = "OnlyOwner"

OwnerRule ==
    /\ owner \in Addr
    /\ \A c \in Addr \ {owner} : RefusedEverywhere(c)
    /\ \A c \in Addr : TransferOwnershipError(c, ZERO) # "ok"
    /\ overdueRepayPenaltyBp <= MAX_BP
    /\ liquidationBonusBp <= MAX_BP
    /\ \A c \in Addr, p, b \in BpProbes :
         (p > MAX_BP \/ b > MAX_BP) => UpdateParamsError(c, p, b) # "ok"

ByOwner ==
    \/ \E newOwner \in NewOwners : newOwner # ZERO /\ TransferOwnership(owner, newOwner)
    \/ Pause(owner)
    \/ Unpause(owner)
    \/ \E p \in ParamChoices :
         p[1] <= MAX_BP /\ p[2] <= MAX_BP /\ UpdateParams(owner, p[1], p[2], p[3])
    \/ \E f \in {ZERO, FEED} : UpdateOracle(owner, f)
    \/ \E price \in DemoPrices : price > 0 /\ SetDemoFixedEthUsdPrice(owner, price)
    \/ \E o \in RwaOracles : o # ZERO /\ UpdateRealEstateOracle(owner, o)

ByAnother ==
    \E c \in Addr \ {owner} :
        \/ \E newOwner \in NewOwners : TransferOwnership(c, newOwner)
        \/ Pause(c)
        \/ Unpause(c)
        \/ \E p \in ParamChoices : UpdateParams(c, p[1], p[2], p[3])
        \/ \E f \in {ZERO, FEED} : UpdateOracle(c, f)
        \/ \E price \in DemoPrices : SetDemoFixedEthUsdPrice(c, price)
        \/ \E o \in RwaOracles : UpdateRealEstateOracle(c, o)

C23_OwnerOnly ==
    /\ []OwnerRule
    /\ [][ /\ ~ByAnother
           /\ adminVars' # adminVars => (ByOwner \/ (stack # <<>> /\ Revert))
           /\ \A c \in Addr :
                (c = owner /\ owner' # c /\ stack' = stack) => RefusedEverywhere(c)' ]_vars

C23_Witness ==
    /\ owner = "a2"
    /\ paused
    /\ overdueRepayPenaltyBp = 0
    /\ liquidationBonusBp = MAX_BP
    /\ ethUsdFeed # ZERO
    /\ demoFixedEthUsdPrice = (DEMO_PRICE_USD \div 2) * SCALE
    /\ realEstateOracle = RWA
    /\ stack # <<>>

(* C24: every owner operation that changes the state appends its event in  *)
(* the same step: OwnerUpdated, Paused, Unpaused, ParamsUpdated,           *)
(* OracleUpdated and RealEstateOracleUpdated carry the new values, and a   *)
(* change of the fixed price appends an event too.                         *)
EmitsOwnEvent ==
    /\ owner' # owner => lastEvent' = Event("OwnerUpdated", <<owner, owner'>>)
    /\ (paused' /\ ~paused) => lastEvent' = Event("Paused", <<owner>>)
    /\ (~paused' /\ paused) => lastEvent' = Event("Unpaused", <<owner>>)
    /\ <<overdueRepayPenaltyBp, liquidationBonusBp, maxPriceStalenessSeconds>>'
         # <<overdueRepayPenaltyBp, liquidationBonusBp, maxPriceStalenessSeconds>> =>
            lastEvent' = Event("ParamsUpdated",
                               <<overdueRepayPenaltyBp', liquidationBonusBp',
                                 maxPriceStalenessSeconds'>>)
    /\ ethUsdFeed' # ethUsdFeed => lastEvent' = Event("OracleUpdated", <<ethUsdFeed'>>)
    /\ realEstateOracle' # realEstateOracle =>
          lastEvent' = Event("RealEstateOracleUpdated", <<realEstateOracle'>>)

C24_AdminEvents ==
    [][ stack' = stack =>
          /\ EmitsOwnEvent
          /\ demoFixedEthUsdPrice' # demoFixedEthUsdPrice => lastEvent' # lastEvent ]_vars

(* C25: getAllActiveLoans returns the ids below totalLoans whose loan has  *)
(* isRepaid = false and the ids below totalRequests whose request has      *)
(* isActive = true, no other id and each once, in ascending order, the     *)
(* record array as long as the id array and holding at each index the      *)
(* stored record of the id at that index.                                  *)
Range(s) == {s[k] : k \in DOMAIN s}

Ascending(s) == \A j, k \in DOMAIN s : j < k => s[j] < s[k]

C25_ActiveView ==
    LET view == GetAllActiveLoans IN
    /\ DOMAIN view.loanIds = 1 .. Len(view.loanIds)
    /\ DOMAIN view.requestIds = 1 .. Len(view.requestIds)
    /\ Len(view.loans) = Len(view.loanIds)
    /\ Len(view.requests) = Len(view.requestIds)
    /\ Range(view.loanIds) = {i \in LoanIds : i < totalLoans /\ ~activeLoans[i].isRepaid}
    /\ Range(view.requestIds)
         = {i \in RequestIds : i < totalRequests /\ loanRequests[i].isActive}
    /\ Ascending(view.loanIds)
    /\ Ascending(view.requestIds)
    /\ \A k \in DOMAIN view.loanIds : view.loans[k] = activeLoans[view.loanIds[k]]
    /\ \A k \in DOMAIN view.requestIds :
         view.requests[k] = loanRequests[view.requestIds[k]]

C25_Witness ==
    /\ TopLevel
    /\ totalLoans = 2
    /\ settlements[0] = <<"repay">>
    /\ activeLoans[0].isRepaid
    /\ ~activeLoans[1].isRepaid
    /\ GetAllActiveLoans.loanIds = <<1>>
    /\ GetAllActiveLoans.loans = <<activeLoans[1]>>
    /\ GetAllActiveLoans.requestIds = <<>>

(* C26: a loan id that no funding has allocated holds the empty loan, and  *)
(* every liquidateExpiredLoan and repayLoan on it fails; the loan that     *)
(* fundLoanRequest creates has isRepaid = false when the funding starts    *)
(* and when it completes.                                                  *)
Unallocated(id) == ~Funded(id)

C26_BornUnrepaid ==
    /\ [](\A id \in LoanIds :
            Unallocated(id) =>
              /\ activeLoans[id] = EmptyLoan
              /\ \A c \in Addr :
                   /\ LiquidateError(c, id) # "ok"
                   /\ \A v \in RepayProbes : RepayError(c, id, v) # "ok")
    /\ [][ /\ Starts("fund") => ~activeLoans'[totalLoans].isRepaid
           /\ FundCompletes => ~activeLoans'[totalLoans - 1].isRepaid ]_vars

(* C27: between transactions the contract holds exactly the stakes of the  *)
(* active requests and of the loans not yet repaid; a creation adds the    *)
(* request's stake, a completed funding leaves the holding as it was, and  *)
(* a completed repayment or liquidation removes the loan's stake.          *)
RECURSIVE ActiveRequestStakes(_)
ActiveRequestStakes(i) ==
    IF ~(i < totalRequests) THEN 0
    ELSE (IF loanRequests[i].isActive THEN loanRequests[i].stake ELSE 0)
         + ActiveRequestStakes(i + 1)

RECURSIVE UnrepaidLoanStakes(_)
UnrepaidLoanStakes(i) ==
    IF ~(i < totalLoans) THEN 0
    ELSE (IF ~activeLoans[i].isRepaid THEN activeLoans[i].stake ELSE 0)
         + UnrepaidLoanStakes(i + 1)

EscrowedStakes == ActiveRequestStakes(0) + UnrepaidLoanStakes(0)

NoCreateInFlight == totalRequests' = Top.snap.totalRequests

EscrowSteps ==
    /\ (stack' = stack /\ totalRequests' = totalRequests + 1) =>
          balance'[THIS] = balance[THIS] + loanRequests'[totalRequests].stake
    /\ (FundCompletes /\ NoCreateInFlight) => balance'[THIS] = Top.snap.balance[THIS]
    /\ ((RepayCompletes \/ LiquidationCompletes) /\ NoCreateInFlight) =>
          balance'[THIS] = Top.snap.balance[THIS] - activeLoans[Top.id].stake

C27_EscrowConserved ==
    /\ [](TopLevel => balance[THIS] = EscrowedStakes)
    /\ [][EscrowSteps]_vars

(* C28: between transactions the reentrancy status is NOT_ENTERED and no   *)
(* fundLoanRequest, repayLoan or liquidateExpiredLoan is refused as        *)
(* Reentrant; the status is ENTERED exactly while a guarded operation is   *)
(* in flight, and the step that ends the outermost one, by completing or   *)
(* by reverting, leaves NOT_ENTERED.                                       *)
GuardRule ==
    /\ TopLevel <=> reentrancyStatus = NOT_ENTERED
    /\ ~TopLevel <=> reentrancyStatus = ENTERED
    /\ TopLevel =>
         \A c \in Addr :
            /\ \A id \in RequestIds : \A v \in Around(loanRequests[id].loanAmount) :
                   FundError(c, id, v) # "Reentrant"
            /\ \A id \in LoanIds :
                   /\ LiquidateError(c, id) # "Reentrant"
                   /\ \A v \in RepayProbes : RepayError(c, id, v) # "Reentrant"

C28_GuardReleased ==
    /\ []GuardRule
    /\ [][ /\ stack' = <<>> => reentrancyStatus' = NOT_ENTERED
           /\ (stack # <<>> /\ stack' = <<>>) =>
                 (Finish \/ Revert) /\ reentrancyStatus = ENTERED ]_vars

C28_Witness ==
    /\ TopLevel
    /\ Funded(0)
    /\ settlements[0] = <<"repay">>
    /\ ethUsdFeed # ZERO
    /\ PriceError = "StalePrice"
    /\ \A c \in Addr : LiquidateError(c, 0) = "AlreadyRepaid"

(* C29: the requests stored are those with the ids 0 .. totalRequests - 1  *)
(* and the loans created those with the ids 0 .. totalLoans - 1, one loan  *)
(* per consumed request.  A createLoanRequest that succeeds writes the     *)
(* empty slot totalRequests, leaves every other request alone and adds 1   *)
(* to totalRequests only; a fundLoanRequest that goes through writes the   *)
(* loan at totalLoans, whichever request it funds, leaves every other      *)
(* loan alone and adds 1 to totalLoans only.  The counters change in no    *)
(* other way, except that a reverting transaction gives back the ids it    *)
(* took.                                                                   *)
IdRule ==
    /\ {id \in RequestIds : loanRequests[id].borrower # ZERO}
         = {id \in RequestIds : id < totalRequests}
    /\ {id \in LoanIds : activeLoans[id].lender # ZERO}
         = {id \in LoanIds : id < totalLoans}
    /\ Cardinality({id \in RequestIds : id < totalRequests /\ ~loanRequests[id].isActive})
         = totalLoans
    /\ GetNextRequestId = totalRequests
    /\ GetNextLoanId = totalLoans

CreateStep == stack' = stack /\ loanRequests' # loanRequests

IdSteps ==
    /\ CreateStep =>
         /\ totalRequests' = totalRequests + 1
         /\ totalLoans' = totalLoans
         /\ loanRequests[totalRequests] = EmptyRequest
         /\ loanRequests'[totalRequests].borrower # ZERO
         /\ \A id \in RequestIds \ {totalRequests} : loanRequests'[id] = loanRequests[id]
         /\ activeLoans' = activeLoans
    /\ Starts("fund") =>
         /\ totalLoans' = totalLoans + 1
         /\ totalRequests' = totalRequests
         /\ activeLoans[totalLoans].lender = ZERO
         /\ activeLoans'[totalLoans].lender = stack'[Len(stack')].sender
         /\ activeLoans'[totalLoans].borrower
              = loanRequests[stack'[Len(stack')].id].borrower
         /\ \A id \in LoanIds \ {totalLoans} : activeLoans'[id] = activeLoans[id]
    /\ totalRequests' # totalRequests => (CreateStep \/ (stack # <<>> /\ Revert))
    /\ totalLoans' # totalLoans => (Starts("fund") \/ (stack # <<>> /\ Revert))
    /\ (stack # <<>> /\ Len(stack') < Len(stack) /\ totalLoans' # totalLoans) =>
         /\ totalRequests' = Top.snap.totalRequests
         /\ totalLoans' = Top.snap.totalLoans
         /\ loanRequests' = Top.snap.loanRequests
         /\ activeLoans' = Top.snap.activeLoans

C29_SequentialIds ==
    /\ []IdRule
    /\ [][IdSteps]_vars

C29_Witness ==
    /\ TopLevel
    /\ totalLoans = 2
    /\ loanRequests[0].borrower = "a1"
    /\ loanRequests[1].borrower = "a2"
    /\ activeLoans[0].borrower = "a2"
    /\ activeLoans[1].borrower = "a1"

(* C30: every loan id below totalLoans occurs once in the borrower index   *)
(* of the loan's borrower, once in the lender index of the loan's lender   *)
(* and in no other account's index, and the indexes hold no other id.      *)
(* Every step but a revert keeps each index as a prefix of what it         *)
(* becomes, only the start of a funding changes an index, and a funding    *)
(* that reverts leaves the indexes as they were before it.                 *)
Occurrences(s, id) == Cardinality({k \in DOMAIN s : s[k] = id})

IsPrefix(s, t) == Len(s) <= Len(t) /\ SubSeq(t, 1, Len(s)) = s

IndexRule ==
    /\ \A id \in LoanIds :
         /\ \A a \in DOMAIN borrowerToLoanIds :
              Occurrences(borrowerToLoanIds[a], id)
                = IF Funded(id) /\ a = activeLoans[id].borrower THEN 1 ELSE 0
         /\ \A a \in DOMAIN lenderToLoanIds :
              Occurrences(lenderToLoanIds[a], id)
                = IF Funded(id) /\ a = activeLoans[id].lender THEN 1 ELSE 0
    /\ \A a \in DOMAIN borrowerToLoanIds : Range(borrowerToLoanIds[a]) \subseteq LoanIds
    /\ \A a \in DOMAIN lenderToLoanIds : Range(lenderToLoanIds[a]) \subseteq LoanIds

IndexSteps ==
    /\ ~(stack # <<>> /\ Revert) =>
         /\ \A a \in DOMAIN borrowerToLoanIds :
              IsPrefix(borrowerToLoanIds[a], borrowerToLoanIds'[a])
         /\ \A a \in DOMAIN lenderToLoanIds :
              IsPrefix(lenderToLoanIds[a], lenderToLoanIds'[a])
    /\ <<borrowerToLoanIds, lenderToLoanIds>>' # <<borrowerToLoanIds, lenderToLoanIds>> =>
         (Starts("fund") \/ (stack # <<>> /\ Revert))
    /\ (stack # <<>> /\ Len(stack') < Len(stack) /\ Top.op = "fund"
          /\ loanRequests'[Top.id].isActive) =>
         /\ borrowerToLoanIds' = Top.snap.borrowerToLoanIds
         /\ lenderToLoanIds' = Top.snap.lenderToLoanIds

C30_IndexLists ==
    /\ []IndexRule
    /\ [][IndexSteps]_vars

C30_Witness ==
    /\ TopLevel
    /\ borrowerToLoanIds["a1"] = <<0, 1>>
    /\ lenderToLoanIds["a2"] = <<1>>
    /\ lenderToLoanIds["a3"] = <<0>>
    /\ settlements[0] = <<"repay">>
    /\ settlements[1] = <<"liquidate">>

(* C31: an unrepaid funded loan past its end can be liquidated by every    *)
(* account between transactions, whatever the pause flag and the feed;     *)
(* with recipients that accept, every funded loan is eventually repaid     *)
(* and its stake released: the contract then holds no more than the        *)
(* stakes of the active requests and of the unrepaid loans.                *)
AlwaysLiquidatable ==
    \A id \in LoanIds :
        (TopLevel /\ Funded(id) /\ ~activeLoans[id].isRepaid
           /\ now > activeLoans[id].endTime) =>
              \A c \in Addr : LiquidateError(c, id) = "ok"

StakeReleased(id) ==
    /\ activeLoans[id].isRepaid
    /\ TopLevel
    /\ balance[THIS] = EscrowedStakes

C31_SettlementLive ==
    /\ []AlwaysLiquidatable
    /\ \A id \in LoanIds : Funded(id) ~> StakeReleased(id)

(* C32: the contract always holds at least the stakes of the active        *)
(* requests (between transactions also those of the unrepaid loans); its   *)
(* holding goes down only in a repayLoan or liquidateExpiredLoan on a      *)
(* funded loan, or when a reverting transaction takes back what it had     *)
(* brought in.  An active request stays as it is, stake included, in       *)
(* every step but the start of its own funding and the revert of the       *)
(* transaction that created it; only a funding clears isActive.            *)
StakeHeld ==
    /\ balance[THIS] >= ActiveRequestStakes(0)
    /\ TopLevel => balance[THIS] >= EscrowedStakes
    /\ \A id \in RequestIds :
         (id < totalRequests /\ loanRequests[id].isActive) =>
            /\ loanRequests[id].stake > 0
            /\ balance[THIS] >= loanRequests[id].stake

Reverts == stack # <<>> /\ Len(stack') < Len(stack) /\ World' = Top.snap

StakeSteps ==
    /\ balance'[THIS] < balance[THIS] =>
         \/ /\ stack' # <<>>
            /\ stack'[Len(stack')].op \in {"repay", "liquidate"}
            /\ Funded(stack'[Len(stack')].id)
         \/ Reverts
    /\ \A id \in RequestIds :
         (id < totalRequests /\ loanRequests[id].isActive) =>
            \/ loanRequests'[id] = loanRequests[id]
            \/ /\ Starts("fund")
               /\ stack'[Len(stack')].id = id
               /\ loanRequests'[id] = [loanRequests[id] EXCEPT !.isActive = FALSE]
            \/ Reverts /\ ~(id < totalRequests')

C32_ActiveStakeHeld ==
    /\ []StakeHeld
    /\ [][StakeSteps]_vars

C32_Witness ==
    /\ TopLevel
    /\ now = MaxTime
    /\ totalRequests = 2
    /\ totalLoans = 1
    /\ ~loanRequests[0].isActive
    /\ loanRequests[1].isActive
    /\ settlements[0] = <<"liquidate">>
    /\ activeLoans[0].lender # ZERO
    /\ balance[THIS] = loanRequests[1].stake

====
